---- MODULE Spec2Model ----
(***************************************************************************)
(* Model of the tiered cache and fan-out aggregation code of the backend:  *)
(*   - YouTubeAPIOptimizer (server.py): in-memory payload / ETag /         *)
(*     timestamp maps, search_videos, get_video_details,                   *)
(*     clear_expired_cache, and the clear-cache command;                   *)
(*   - YouTubeCache (routes/youtube.py): in-memory cache with lazy         *)
(*     eviction;                                                           *)
(*   - the fan-out searches and the paginated endpoints (server.py).       *)
(* Time is a count of seconds.  Python's None is the empty sequence and a  *)
(* present value v is <<v>>, so that optional values stay comparable.      *)
(***************************************************************************)
EXTENDS Integers, Sequences, FiniteSets, TLC

VARIABLES
    now,               \* wall clock, seconds (datetime.now())
    etag_cache,        \* YouTubeAPIOptimizer._etag_cache
    data_cache,        \* YouTubeAPIOptimizer._data_cache
    cache_timestamps,  \* YouTubeAPIOptimizer._cache_timestamps
    yc_cache,          \* YouTubeCache._cache
    yc_timestamps,     \* YouTubeCache._timestamps
    lastWrite,         \* history: last set_cache per key since the last clear
    ycLastWrite,       \* history: last YouTubeCache.set per key since the last clear
    last,              \* history: the last operation and what it returned
    calls,             \* number of operations performed so far
    fan,               \* the fan-out search in progress
    resp,              \* the last response of a search / paginated endpoint
    db_cache,          \* the youtube_api_cache collection, in insertion order
    db_videos,         \* the discovered_videos collection, in insertion order
    dbLastSet,         \* history: last set_cached_search per key since the last clear
    reading_lists,     \* the reading_lists collection, in insertion order
    inflight           \* requests suspended at an await, with what they read so far

vars == << now, etag_cache, data_cache, cache_timestamps, yc_cache,
           yc_timestamps, lastWrite, ycLastWrite, last, calls, fan, resp,
           db_cache, db_videos, dbLastSet, reading_lists, inflight >>

cacheVars == << now, etag_cache, data_cache, cache_timestamps, yc_cache,
                yc_timestamps, lastWrite, ycLastWrite, last, calls,
                db_cache, db_videos, dbLastSet, reading_lists, inflight >>

searchVars == << fan, resp >>

dbVars == << db_cache, db_videos, dbLastSet, reading_lists, inflight >>

-----------------------------------------------------------------------------
(* Bounds                                                                  *)

\* the longest id list handed to get_video_details
MaxIds == 120

\* state-changing operations per behaviour
MaxCalls == 3

\* get_video_details calls per behaviour in SpecBatch
MaxBatchCalls == 2

\* the instants the clock visits
TimePoints == {0, 1799, 1800, 1801}

-----------------------------------------------------------------------------
(* Program constants                                                       *)

CACHE_TTL_MINUTES == 30

CACHE_TTL == 1800

BatchSize == 50

\* max_results as discover_videos passes it to search_videos
SearchMax == 50

-----------------------------------------------------------------------------
(* Helpers                                                                 *)

None == << >>

Some(v) == << v >>

Min(a, b) == IF a < b THEN a ELSE b

Max(a, b) == IF a > b THEN a ELSE b

\* dict assignment  d[k] = v
Put(d, k, v) == [x \in (DOMAIN d) \cup {k} |-> IF x = k THEN v ELSE d[x]]

\* dict.pop(k, None)
Pop(d, k) == [x \in (DOMAIN d) \ {k} |-> d[x]]

\* dict.get(k)
Get(d, k) == IF k \in DOMAIN d THEN Some(d[k]) ELSE None

\* {} or a cleared dict
EmptyDict == [x \in {} |-> None]

\* range(lo, hi + 1) as a list
Range(lo, hi) == [i \in 1..(hi - lo + 1) |-> lo + i - 1]

\* s[a:b] of Python, 0-based, with the clamping of slice indices
Slice(s, a, b) ==
    LET n  == Len(s)
        lo == IF a < 0 THEN Max(n + a, 0) ELSE Min(a, n)
        hi == IF b < 0 THEN Max(n + b, 0) ELSE Min(b, n)
    IN  IF hi <= lo THEN << >> ELSE [i \in 1..(hi - lo) |-> s[lo + i]]

\* sorted(s) for a list of comparable values
Sorted(s) ==
    LET rank(j) == Cardinality({k \in 1..Len(s) : s[k] < s[j]})
                   + Cardinality({k \in 1..(j - 1) : s[k] = s[j]}) + 1
    IN  [i \in 1..Len(s) |-> s[CHOOSE j \in 1..Len(s) : rank(j) = i]]


-----------------------------------------------------------------------------
(* Cache keys.  get_cache_key serialises the parameter dict with sorted    *)
(* keys and hashes "operation:params"; the digest is modelled by the pair   *)
(* it is computed from (md5 taken as collision-free).  A dict is a list of *)
(* <<name, value>> pairs in insertion order.                               *)

\* alphabetical rank of the parameter names the callers use
NameRank(name) ==
    CASE name = "ids"   -> 1
      [] name = "max"   -> 2
      [] name = "order" -> 3
      [] name = "page"  -> 4
      [] name = "q"     -> 5

\* json.dumps(params) keeping the insertion order
JsonDumps_unsorted(params) == params

\* json.dumps(params, sort_keys=True)
JsonDumpsSorted(params) ==
    LET ranks == [i \in 1..Len(params) |-> NameRank(params[i][1])]
        at(r) == CHOOSE i \in 1..Len(params) : ranks[i] = r
        order == Sorted(ranks)
    IN  [i \in 1..Len(params) |-> params[at(order[i])]]

get_cache_key(operation, params) == << operation, JsonDumpsSorted(params) >>

\* ",".join(ids): the list of ids itself (ids contain no comma)
JoinIds(ids) == ids

-----------------------------------------------------------------------------
(* Inputs                                                                  *)

\* queries are sequences of characters
Queries == { << "q", "1" >> }

PageTokens == {None, Some("p2")}

\* id lists handed to get_video_details; ids are compared as sorted() does
VideoIdLists == { <<1, 2>>, <<2, 1>>, Range(1, MaxIds) }

\* id lists around the batch boundaries
BoundaryIdLists ==
    { << >>, <<1>>, Range(1, BatchSize - 1), Range(1, BatchSize),
      Range(1, BatchSize + 1), Range(1, 2 * BatchSize), Range(1, 2 * BatchSize + 1),
      Range(1, MaxIds) }

\* sorted(video_ids), computed once per input list
SortedIds == [l \in VideoIdLists \cup BoundaryIdLists \cup { <<3>> } |-> Sorted(l)]

\* keys and payloads handed to set_cache / get_cached_data directly
RawKeys == { get_cache_key("raw", << <<"q", "a">> >>) }

RawPayloads == { [items |-> << >>, etag |-> None],
                 [items |-> <<7>>, etag |-> None] }

\* an ETag is a tuple of its parts
RawEtags == { None, Some(<<"W1">>) }

YCKeys == { "discover:a", "discover:b" }

YCPayloads == { [videos |-> <<1>>], [videos |-> <<2>>] }

-----------------------------------------------------------------------------
(* The provider.  A response carries the items current at the time of the  *)
(* request and an ETag naming that content; a request is answered with a   *)
(* payload ("ok"), with 304 Not Modified (only to a conditional request),  *)
(* or with another HttpError ("error").                                    *)

ProviderAnswers == {"ok", "304", "error"}

CreativeCommonsSuffix == << " ", "c", "r", "e", "a", "t", "i", "v", "e", " ", "c", "o", "m", "m", "o", "n", "s" >>

\* queries for which the provider finds no video
NoResultQueries == { << "n" >>, << "z" >>, << "z" >> \o CreativeCommonsSuffix }

\* search().list(...).execute(): ids of the videos found
SearchResponse(query, page_token, t) ==
    [items |-> IF query \in NoResultQueries THEN << >>
               ELSE IF page_token = None THEN <<1, 2>> ELSE <<3>>,
     etag  |-> Some(<<"etag", query, t>>)]

\* videos().list(id=batch).execute(): one item per requested id, in request
\* order; an item is <<id, time it was fetched>>
VideosResponse(batch_ids, t) ==
    [items |-> [i \in 1..Len(batch_ids) |-> <<batch_ids[i], t>>],
     etag  |-> Some(<<"etag", batch_ids, t>>)]


-----------------------------------------------------------------------------
(* YouTubeAPIOptimizer: the in-memory cache.  The three class-level dicts  *)
(* are passed as one record c = [data, ts, etag]; t is datetime.now().     *)

TheCache == [data |-> data_cache, ts |-> cache_timestamps, etag |-> etag_cache]

\* variant: an entry whose age equals the TTL still counts as valid
is_cache_valid_inclusive(c, cache_key, t) ==
    IF cache_key \notin DOMAIN c.ts
    THEN FALSE
    ELSE (t - c.ts[cache_key]) <= CACHE_TTL_MINUTES * 60

is_cache_valid(c, cache_key, t) ==
    IF cache_key \notin DOMAIN c.ts
    THEN FALSE
    ELSE (t - c.ts[cache_key]) < CACHE_TTL_MINUTES * 60

get_cached_data(c, cache_key, t) ==
    IF is_cache_valid(c, cache_key, t) /\ cache_key \in DOMAIN c.data
    THEN Some(c.data[cache_key])
    ELSE None

\* etag is None or Some(tag); "if etag:" holds for every tag a response carries
set_cache(c, cache_key, data, etag, t) ==
    [data |-> Put(c.data, cache_key, data),
     ts   |-> Put(c.ts, cache_key, t),
     etag |-> IF etag # None THEN Put(c.etag, cache_key, etag[1]) ELSE c.etag]

get_etag(c, cache_key) == Get(c.etag, cache_key)

\* keys whose age exceeds the TTL, as clear_expired_cache collects them
expired_keys(c, t) ==
    {key \in DOMAIN c.ts : (t - c.ts[key]) > CACHE_TTL_MINUTES * 60}

\* clear_expired_cache without the pop on the ETag map
clear_expired_cache_keep_etag(c, t) ==
    LET gone == expired_keys(c, t)
    IN  [data |-> [k \in (DOMAIN c.data) \ gone |-> c.data[k]],
         ts   |-> [k \in (DOMAIN c.ts) \ gone |-> c.ts[k]],
         etag |-> c.etag]

clear_expired_cache(c, t) ==
    LET gone == expired_keys(c, t)
    IN  [data |-> [k \in (DOMAIN c.data) \ gone |-> c.data[k]],
         ts   |-> [k \in (DOMAIN c.ts) \ gone |-> c.ts[k]],
         etag |-> [k \in (DOMAIN c.etag) \ gone |-> c.etag[k]]]

\* "if cached:" - a response dict is truthy, None is not
Truthy(opt) == opt # None

-----------------------------------------------------------------------------
(* History record of the last operation                                    *)

Last(op, args, outcome, result, requests, conditional, answers, pre, preOverall) ==
    [op |-> op, args |-> args, outcome |-> outcome, result |-> result,
     requests |-> requests, conditional |-> conditional, answers |-> answers,
     pre |-> pre, preOverall |-> preOverall, at |-> now]

Idle == [op |-> "none", args |-> None, outcome |-> "none", result |-> None,
         requests |-> << >>, conditional |-> << >>, answers |-> << >>,
         pre |-> << >>, preOverall |-> None, at |-> 0]

\* the history of writes, applied to lastWrite: writes is a list of <<key, payload>>
RECURSIVE Record(_, _, _)
Record(lw, writes, t) ==
    IF writes = << >>
    THEN lw
    ELSE Record(Put(lw, Head(writes)[1], [t0 |-> t, payload |-> Head(writes)[2]]),
                Tail(writes), t)


-----------------------------------------------------------------------------
(* YouTubeAPIOptimizer.search_videos and get_video_details.  Neither       *)
(* awaits, so each runs to completion as one step.  Each operator returns  *)
(* the cache after the call together with what the call did:               *)
(*   outcome     "hit" (answered from the cache), "ok" (returned after     *)
(*               asking the provider) or "error" (the HttpError raised)    *)
(*   result      the dict returned, None when the call raised              *)
(*   requests    the provider requests issued, in order (the ids asked)    *)
(*   conditional for each request, whether If-None-Match was attached      *)
(*   pre         for each request, the payload stored under its key before *)
(*   writes      history of the set_cache calls made                       *)
(*   feasible    the provider answers chosen are possible (304 only to a   *)
(*               conditional request)                                      *)

SearchParams(query, page_token, order) ==
    << <<"q", query>>, <<"max", SearchMax>>,
       <<"page", IF page_token = None THEN "first" ELSE page_token[1]>>,
       <<"order", order>> >>

search_videos(c, query, page_token, order, answer, t) ==
    LET cache_key == get_cache_key("search", SearchParams(query, page_token, order))
        first     == page_token = None
        cached    == IF first THEN get_cached_data(c, cache_key, t) ELSE None
        etag      == IF first THEN get_etag(c, cache_key) ELSE None
        response  == SearchResponse(query, page_token, t)
        base      == [c |-> c, outcome |-> "hit", result |-> cached,
                      requests |-> << >>, conditional |-> << >>, answers |-> << >>,
                      pre |-> << >>, writes |-> << >>, feasible |-> answer = "ok",
                      key |-> cache_key]
        asked     == [base EXCEPT !.requests = << query >>,
                                  !.conditional = << Truthy(etag) >>,
                                  !.answers = << answer >>,
                                  !.pre = << Get(c.data, cache_key) >>,
                                  !.feasible = (answer = "304" => Truthy(etag))]
    IN  IF first /\ Truthy(cached)
        THEN base
        ELSE CASE answer = "ok" ->
                    IF first
                    THEN [asked EXCEPT
                            !.c = set_cache(c, cache_key, response, response.etag, t),
                            !.outcome = "ok", !.result = Some(response),
                            !.writes = << <<cache_key, response>> >>]
                    ELSE [asked EXCEPT !.outcome = "ok", !.result = Some(response)]
               [] answer = "304" ->
                    LET again == get_cached_data(c, cache_key, t)
                    IN  [asked EXCEPT
                            !.outcome = "ok",
                            !.result = IF Truthy(again) THEN again
                                       ELSE Some([items |-> << >>, etag |-> None])]
               [] OTHER ->
                    [asked EXCEPT !.outcome = "error", !.result = None]

\* variant: range(0, n - 1, BatchSize), which loses a last chunk of one id
ChunkStarts_short(n) ==
    LET starts == {i \in 0..(n - 2) : i % BatchSize = 0}
    IN  [k \in 1..Cardinality(starts) |->
           CHOOSE i \in starts : Cardinality({j \in starts : j < i}) = k - 1]

\* range(0, n, BatchSize)
ChunkStarts(n) ==
    LET starts == {i \in 0..(n - 1) : i % BatchSize = 0}
    IN  [k \in 1..Cardinality(starts) |->
           CHOOSE i \in starts : Cardinality({j \in starts : j < i}) = k - 1]

VideosKey(video_ids) ==
    get_cache_key("videos", << <<"ids", JoinIds(SortedIds[video_ids])>> >>)

BatchKey(batch_ids) ==
    get_cache_key("videos_batch", << <<"ids", JoinIds(batch_ids)>> >>)

\* the loop body for the chunk starting at starts[k], applied to the loop state a
Chunk(a, video_ids, starts, answers, k, t) ==
    LET i         == starts[k]
        batch_ids == Slice(video_ids, i, i + BatchSize)
        batch_key == BatchKey(batch_ids)
        etag      == get_etag(a.c, batch_key)
        answer    == answers[k]
        asked     == [a EXCEPT !.requests = Append(a.requests, batch_ids),
                               !.conditional = Append(a.conditional, Truthy(etag)),
                               !.answers = Append(a.answers, answer),
                               !.pre = Append(a.pre, Get(a.c.data, batch_key)),
                               !.feasible = a.feasible /\ (answer = "304" => Truthy(etag))]
    IN  CASE answer = "ok" ->
               LET response == VideosResponse(batch_ids, t)
               IN  [asked EXCEPT
                      !.all_items = a.all_items \o response.items,
                      !.c = set_cache(a.c, batch_key, response, response.etag, t),
                      !.writes = Append(a.writes, <<batch_key, response>>)]
          [] answer = "304" ->
               LET cached_batch == get_cached_data(a.c, batch_key, t)
               IN  IF Truthy(cached_batch)
                   THEN [asked EXCEPT !.all_items = a.all_items \o cached_batch[1].items]
                   ELSE asked
          [] OTHER ->
               [asked EXCEPT !.outcome = "error"]

RECURSIVE Chunks(_, _, _, _, _, _)
Chunks(a, video_ids, starts, answers, k, t) ==
    IF k > Len(starts) \/ a.outcome = "error"
    THEN [a EXCEPT !.feasible = a.feasible /\ \A j \in k..Len(starts) : answers[j] = "ok"]
    ELSE Chunks(Chunk(a, video_ids, starts, answers, k, t),
                video_ids, starts, answers, k + 1, t)

\* variant: the overall entry is written even when a chunk raised
Finish_always_caches(a, cache_key, t) ==
    [a EXCEPT !.c = set_cache(a.c, cache_key, [items |-> a.all_items], None, t),
              !.result = IF a.outcome = "error" THEN None
                         ELSE Some([items |-> a.all_items]),
              !.writes = Append(a.writes, <<cache_key, [items |-> a.all_items]>>)]

\* after the loop: cache and return the overall result, unless a chunk raised
Finish(a, cache_key, t) ==
    IF a.outcome = "error"
    THEN [a EXCEPT !.result = None]
    ELSE [a EXCEPT !.c = set_cache(a.c, cache_key, [items |-> a.all_items], None, t),
                   !.result = Some([items |-> a.all_items]),
                   !.writes = Append(a.writes, <<cache_key, [items |-> a.all_items]>>)]

get_video_details(c, video_ids, answers, t) ==
    LET cache_key == VideosKey(video_ids)
        cached    == get_cached_data(c, cache_key, t)
        base      == [c |-> c, outcome |-> "hit", result |-> cached,
                      requests |-> << >>, conditional |-> << >>, answers |-> << >>,
                      pre |-> << >>, writes |-> << >>,
                      feasible |-> \A j \in DOMAIN answers : answers[j] = "ok",
                      key |-> cache_key, all_items |-> << >>]
    IN  IF video_ids = << >>
        THEN [base EXCEPT !.result = Some([items |-> << >>])]
        ELSE IF Truthy(cached)
        THEN base
        ELSE Finish(Chunks([base EXCEPT !.outcome = "ok", !.feasible = TRUE],
                           video_ids, ChunkStarts(Len(video_ids)), answers, 1, t),
                    cache_key, t)

-----------------------------------------------------------------------------
(* YouTubeCache (routes/youtube.py)                                        *)

\* what YouTubeCache.get(key) returns
YouTubeCache_get(cache, timestamps, key, t) ==
    IF key \in DOMAIN cache /\ (t - timestamps[key]) < CACHE_TTL
    THEN Some(cache[key])
    ELSE None

\* the entries YouTubeCache.get(key) leaves behind: an expired entry is deleted
YouTubeCache_evict(d, timestamps, key, t) ==
    IF key \in DOMAIN d /\ ~((t - timestamps[key]) < CACHE_TTL)
    THEN Pop(d, key)
    ELSE d

-----------------------------------------------------------------------------
(* Initial state                                                           *)

\* no fan-out search has been started
NoFan == [op |-> "none", req |-> << >>, tasks |-> << >>, results |-> << >>,
          failed |-> {}, last_done |-> 0, done |-> TRUE]

NoResp == [op |-> "none"]

Init ==
    /\ now = 0
    /\ etag_cache = EmptyDict
    /\ data_cache = EmptyDict
    /\ cache_timestamps = EmptyDict
    /\ yc_cache = EmptyDict
    /\ yc_timestamps = EmptyDict
    /\ lastWrite = EmptyDict
    /\ ycLastWrite = EmptyDict
    /\ last = Idle
    /\ calls = 0
    /\ fan = NoFan
    /\ resp = NoResp
    /\ db_cache = << >>
    /\ db_videos = << >>
    /\ dbLastSet = EmptyDict
    /\ reading_lists = << >>
    /\ inflight = << >>

-----------------------------------------------------------------------------
(* Actions on the caches                                                   *)

Install(c) ==
    /\ data_cache' = c.data
    /\ cache_timestamps' = c.ts
    /\ etag_cache' = c.etag

\* the clock advances
Tick(t) ==
    /\ t \in TimePoints
    /\ t > now
    /\ now' = t
    /\ last' = Idle
    /\ UNCHANGED << etag_cache, data_cache, cache_timestamps, yc_cache,
                    yc_timestamps, lastWrite, ycLastWrite, calls, fan, resp, dbVars >>

DoSetCache(key, data, etag) ==
    /\ calls < MaxCalls
    /\ calls' = calls + 1
    /\ Install(set_cache(TheCache, key, data, etag, now))
    /\ lastWrite' = Record(lastWrite, << <<key, data>> >>, now)
    /\ last' = Last("set_cache", Some(key), "ok", None, << >>, << >>, << >>, << >>, None)
    /\ UNCHANGED << now, yc_cache, yc_timestamps, ycLastWrite, fan, resp, dbVars >>

DoGetCachedData(key) ==
    /\ last' = Last("get_cached_data", Some(key), "ok",
                    get_cached_data(TheCache, key, now), << >>, << >>, << >>, << >>, None)
    /\ UNCHANGED << now, etag_cache, data_cache, cache_timestamps, yc_cache,
                    yc_timestamps, lastWrite, calls, ycLastWrite, fan, resp, dbVars >>

DoGetEtag(key) ==
    /\ last' = Last("get_etag", Some(key), "ok", get_etag(TheCache, key),
                    << >>, << >>, << >>, << >>, None)
    /\ UNCHANGED << now, etag_cache, data_cache, cache_timestamps, yc_cache,
                    yc_timestamps, lastWrite, calls, ycLastWrite, fan, resp, dbVars >>

DoClearExpiredCache ==
    /\ calls < MaxCalls
    /\ calls' = calls + 1
    /\ Install(clear_expired_cache(TheCache, now))
    /\ last' = Last("clear_expired_cache", None, "ok", None, << >>, << >>, << >>, << >>,
                    Some(TheCache))
    /\ UNCHANGED << now, yc_cache, yc_timestamps, lastWrite, ycLastWrite, fan, resp, dbVars >>

\* variant: only the in-memory dicts are cleared
clear_youtube_cache_memory_only ==
    /\ calls < MaxCalls
    /\ calls' = calls + 1
    /\ Install([data |-> EmptyDict, ts |-> EmptyDict, etag |-> EmptyDict])
    /\ lastWrite' = EmptyDict
    /\ last' = Last("clear_youtube_cache", None, "ok", None, << >>, << >>, << >>, << >>, None)
    /\ resp' = [op |-> "clear_youtube_cache", status |-> 200,
                before |-> [memory |-> DOMAIN data_cache \cup DOMAIN etag_cache,
                            durable |-> Len(db_cache)]]
    /\ UNCHANGED << now, yc_cache, yc_timestamps, ycLastWrite, fan, dbVars >>

\* POST /youtube/clear-cache (server.py): the three dicts are cleared and
\* every document of the youtube_api_cache collection is deleted
clear_youtube_cache ==
    /\ calls < MaxCalls
    /\ calls' = calls + 1
    /\ Install([data |-> EmptyDict, ts |-> EmptyDict, etag |-> EmptyDict])
    /\ lastWrite' = EmptyDict
    /\ db_cache' = << >>
    /\ dbLastSet' = EmptyDict
    /\ last' = Last("clear_youtube_cache", None, "ok", None, << >>, << >>, << >>, << >>, None)
    /\ resp' = [op |-> "clear_youtube_cache", status |-> 200,
                before |-> [memory |-> DOMAIN data_cache \cup DOMAIN etag_cache,
                            durable |-> Len(db_cache)]]
    /\ UNCHANGED << now, yc_cache, yc_timestamps, ycLastWrite, fan, db_videos,
                    reading_lists, inflight >>

DoSearchVideos(query, page_token, answer) ==
    /\ calls < MaxCalls
    /\ \E r \in {search_videos(TheCache, query, page_token, "viewCount", answer, now)} :
           /\ r.feasible
           /\ calls' = calls + 1
           /\ Install(r.c)
           /\ lastWrite' = Record(lastWrite, r.writes, now)
           /\ last' = Last("search_videos", Some(r.key), r.outcome, r.result,
                           r.requests, r.conditional, r.answers, r.pre,
                           << Get(data_cache, r.key), Get(cache_timestamps, r.key) >>)
    /\ UNCHANGED << now, yc_cache, yc_timestamps, ycLastWrite, fan, resp, dbVars >>

DoGetVideoDetails(video_ids, answers) ==
    /\ calls < MaxCalls
    /\ \E r \in {get_video_details(TheCache, video_ids, answers, now)} :
           /\ r.feasible
           /\ calls' = calls + 1
           /\ Install(r.c)
           /\ lastWrite' = Record(lastWrite, r.writes, now)
           /\ last' = Last("get_video_details", Some(video_ids), r.outcome, r.result,
                           r.requests, r.conditional, r.answers, r.pre,
                           << Get(data_cache, r.key), Get(cache_timestamps, r.key) >>)
    /\ UNCHANGED << now, yc_cache, yc_timestamps, ycLastWrite, fan, resp, dbVars >>

YouTubeCache_set(key, value) ==
    /\ calls < MaxCalls
    /\ calls' = calls + 1
    /\ yc_cache' = Put(yc_cache, key, value)
    /\ yc_timestamps' = Put(yc_timestamps, key, now)
    /\ ycLastWrite' = Put(ycLastWrite, key, [t0 |-> now, payload |-> value])
    /\ last' = Last("YouTubeCache.set", Some(key), "ok", None, << >>, << >>, << >>, << >>, None)
    /\ UNCHANGED << now, etag_cache, data_cache, cache_timestamps, lastWrite, fan, resp, dbVars >>

DoYouTubeCacheGet(key) ==
    /\ calls < MaxCalls
    /\ calls' = calls + 1
    /\ yc_cache' = YouTubeCache_evict(yc_cache, yc_timestamps, key, now)
    /\ yc_timestamps' = YouTubeCache_evict(yc_timestamps, yc_timestamps, key, now)
    /\ last' = Last("YouTubeCache.get", Some(key), "ok",
                    YouTubeCache_get(yc_cache, yc_timestamps, key, now),
                    << >>, << >>, << >>, << >>, None)
    /\ UNCHANGED << now, etag_cache, data_cache, cache_timestamps, lastWrite,
                    ycLastWrite, fan, resp, dbVars >>

YouTubeCache_clear ==
    /\ calls < MaxCalls
    /\ calls' = calls + 1
    /\ yc_cache' = EmptyDict
    /\ yc_timestamps' = EmptyDict
    /\ ycLastWrite' = EmptyDict
    /\ last' = Last("YouTubeCache.clear", None, "ok", None, << >>, << >>, << >>, << >>, None)
    /\ UNCHANGED << now, etag_cache, data_cache, cache_timestamps, lastWrite, fan, resp, dbVars >>

AnswersFor(video_ids) ==
    [1..Len(ChunkStarts(Len(video_ids))) -> ProviderAnswers]

\* the in-memory caches used directly
NextCache ==
    \/ \E t \in TimePoints : Tick(t)
    \/ \E key \in RawKeys, data \in RawPayloads, etag \in RawEtags :
          DoSetCache(key, data, etag)
    \/ \E key \in RawKeys : DoGetCachedData(key)
    \/ \E key \in RawKeys : DoGetEtag(key)
    \/ DoClearExpiredCache
    \/ clear_youtube_cache
    \/ \E key \in YCKeys, value \in YCPayloads : YouTubeCache_set(key, value)
    \/ \E key \in YCKeys : DoYouTubeCacheGet(key)
    \/ YouTubeCache_clear

SpecCache == Init /\ [][NextCache]_vars

\* the provider-facing operations of YouTubeAPIOptimizer
Next ==
    \/ \E t \in TimePoints : Tick(t)
    \/ \E query \in Queries, page_token \in PageTokens, answer \in ProviderAnswers :
          DoSearchVideos(query, page_token, answer)
    \/ \E video_ids \in VideoIdLists :
          \E answers \in AnswersFor(video_ids) : DoGetVideoDetails(video_ids, answers)
    \/ DoClearExpiredCache
    \/ clear_youtube_cache

Spec == Init /\ [][Next]_vars

\* get_video_details on lists around the batch boundaries
NextBatch ==
    \/ \E t \in TimePoints : Tick(t)
    \/ \E video_ids \in BoundaryIdLists :
          \E answers \in AnswersFor(video_ids) :
             calls < MaxBatchCalls /\ DoGetVideoDetails(video_ids, answers)

SpecBatch == Init /\ [][NextBatch]_vars


-----------------------------------------------------------------------------
(* Properties of the in-memory caches                                      *)

\* what a read of a key last written at w.t0 must give at time t
ExpectedRead(w, t) == IF t - w.t0 < CACHE_TTL THEN Some(w.payload) ELSE None

\* C1: a key written at t0 and neither written nor cleared since is read back
\* with the written payload at every time t with t - t0 < TTL and is a miss at
\* every t with t - t0 >= TTL, in YouTubeAPIOptimizer and in YouTubeCache
\* (TTL 30 minutes), both for the read any state allows and for the read made.
C1_TTLCorrectness ==
    /\ \A k \in DOMAIN lastWrite :
          get_cached_data(TheCache, k, now) = ExpectedRead(lastWrite[k], now)
    /\ \A k \in DOMAIN ycLastWrite :
          YouTubeCache_get(yc_cache, yc_timestamps, k, now)
             = ExpectedRead(ycLastWrite[k], now)
    /\ (last.op = "get_cached_data" /\ last.args[1] \in DOMAIN lastWrite)
          => last.result = ExpectedRead(lastWrite[last.args[1]], now)
    /\ (last.op = "YouTubeCache.get" /\ last.args[1] \in DOMAIN ycLastWrite)
          => last.result = ExpectedRead(ycLastWrite[last.args[1]], now)

\* a read one second before the TTL elapses hits; a read at the TTL misses
C1_Witness ==
    \/ /\ last.op = "get_cached_data"
       /\ last.args[1] \in DOMAIN lastWrite
       /\ now - lastWrite[last.args[1]].t0 = CACHE_TTL - 1
       /\ last.result = Some(lastWrite[last.args[1]].payload)
    \/ /\ last.op = "YouTubeCache.get"
       /\ last.args[1] \in DOMAIN ycLastWrite
       /\ now - ycLastWrite[last.args[1]].t0 = CACHE_TTL
       /\ last.result = None

-----------------------------------------------------------------------------
(* Properties of search_videos and get_video_details                       *)

IsDetails == last.op = "get_video_details"

IsSearch == last.op = "search_videos"

\* the items the last call must return when every 304 is answered from the
\* payload stored under the request's key: chunk by chunk, in request order
RECURSIVE ItemsReusingCache(_)
ItemsReusingCache(j) ==
    IF j = 0
    THEN << >>
    ELSE ItemsReusingCache(j - 1) \o
         (IF last.answers[j] = "304"
          THEN last.pre[j][1].items
          ELSE VideosResponse(last.requests[j], last.at).items)

NotModifiedAnswered ==
    \E j \in 1..Len(last.requests) : last.conditional[j] /\ last.answers[j] = "304"

\* C2: when search_videos or a chunk request of get_video_details sent a
\* conditional request and the provider answered 304, the items returned are
\* those of the payload stored under that key, never an empty or shortened list.
C2_NotModifiedReusesCache ==
    ((IsSearch \/ IsDetails) /\ last.outcome = "ok" /\ NotModifiedAnswered)
       => last.result[1].items = ItemsReusingCache(Len(last.requests))


\* ceil(n / d)
Ceil(n, d) == (n + d - 1) \div d

\* the consecutive slices of at most BatchSize ids of an id list
ExpectedSlices(ids) ==
    LET n == Len(ids)
        K == Ceil(n, BatchSize)
    IN  [k \in 1..K |->
           [i \in 1..(IF k < K THEN BatchSize ELSE n - BatchSize * (K - 1)) |->
              ids[BatchSize * (k - 1) + i]]]

\* C7 as stated: a call with n > 0 ids that is not answered from the cache
\* issues exactly ceil(n/50) requests, one per consecutive slice, in order.
C7_Original ==
    (IsDetails /\ last.args[1] # << >> /\ last.outcome # "hit")
       => last.requests = ExpectedSlices(last.args[1])

\* C7: a call with n > 0 ids that is not answered from the cache and that no
\* provider error aborts issues exactly ceil(n/50) requests, one per
\* consecutive slice of the id list in slice order, each of at most 50 ids and
\* all but the last of exactly 50; a call that a provider error aborts has
\* issued the slices up to the failing one and no more.
C7_BatchBoundary ==
    (IsDetails /\ last.args[1] # << >> /\ last.outcome # "hit")
       => LET slices == ExpectedSlices(last.args[1])
              issued == last.requests
          IN  /\ Len(slices) = Ceil(Len(last.args[1]), BatchSize)
              /\ \A k \in 1..Len(issued) :
                    /\ Len(issued[k]) <= BatchSize
                    /\ k < Len(slices) => Len(issued[k]) = BatchSize
              /\ last.outcome = "ok" => issued = slices
              /\ last.outcome = "error"
                    => /\ Len(issued) \in 1..Len(slices)
                       /\ issued = SubSeq(slices, 1, Len(issued))
                       /\ last.answers[Len(issued)] = "error"
                       /\ \A k \in 1..(Len(issued) - 1) : last.answers[k] # "error"

\* 120 ids were fetched in three requests of 50, 50 and 20 ids
C7_Witness ==
    /\ IsDetails
    /\ last.outcome = "ok"
    /\ Len(last.args[1]) = 120
    /\ [k \in 1..Len(last.requests) |-> Len(last.requests[k])] = <<50, 50, 20>>

\* the ids of the items a call returned
ReturnedIds == [i \in 1..Len(last.result[1].items) |-> last.result[1].items[i][1]]

\* s lists elements of t in the order they have in t (both without repeats)
InOrderOf(s, t) ==
    LET pos(x) == CHOOSE i \in 1..Len(t) : t[i] = x
    IN  /\ \A i \in 1..Len(s) : \E k \in 1..Len(t) : t[k] = s[i]
        /\ \A i \in 1..(Len(s) - 1) : pos(s[i]) < pos(s[i + 1])

\* C8: the items a get_video_details call returns are in the order of the ids
\* passed to that call, whether fetched or answered from the in-memory cache.
C8_ItemsInCallOrder ==
    (IsDetails /\ last.outcome \in {"ok", "hit"} /\ last.args[1] # << >>)
       => InOrderOf(ReturnedIds, last.args[1])

\* C9: when a chunk request fails with an error other than 304, the call
\* raises, the entry under the overall id-set key is what it was before the
\* call, and every chunk fetched earlier in the call is stored with its
\* payload, ETag and timestamp.
C9_FailedChunkKeepsFetched ==
    (IsDetails /\ last.outcome = "error")
       => LET key == VideosKey(last.args[1])
          IN  /\ last.result = None
              /\ << Get(data_cache, key), Get(cache_timestamps, key) >> = last.preOverall
              /\ \A k \in 1..(Len(last.requests) - 1) :
                    LET bk == BatchKey(last.requests[k])
                        response == VideosResponse(last.requests[k], last.at)
                    IN  IF last.answers[k] = "ok"
                        THEN /\ Get(data_cache, bk) = Some(response)
                             /\ Get(etag_cache, bk) = response.etag
                             /\ Get(cache_timestamps, bk) = Some(last.at)
                        ELSE Get(data_cache, bk) = last.pre[k]

\* the third chunk failed after two chunks had been fetched
C9_Witness ==
    /\ IsDetails
    /\ last.outcome = "error"
    /\ last.answers = <<"ok", "ok", "error">>

-----------------------------------------------------------------------------
(* Fan-out searches: strings, items and adapter outputs                    *)

\* the largest per_page the paginated endpoints accept (le=100)
PerPageMax == 100

\* the placeholder thumbnail of the article adapters (a page emoji)
PageEmoji == "page-emoji"

\* str.lower() on the strings of the model
Lower(s) ==
    CASE s = "Alpha"   -> "alpha"
      [] s = "ALPHA"   -> "alpha"
      [] s = " Alpha " -> " alpha "
      [] s = "Beta"    -> "beta"
      [] s = "Gamma"   -> "gamma"
      [] s = "Delta"   -> "delta"
      [] s = "Epsilon" -> "epsilon"
      [] s = "Math"    -> "math"
      [] s = "Children's poetry" -> "children's poetry"
      [] OTHER -> s

\* str.strip() on the strings of the model
Strip(s) ==
    CASE s = " Alpha " -> "Alpha"
      [] s = " alpha " -> "alpha"
      [] OTHER -> s

\* needle in text, for the words of the model
Contains(text, needle) ==
    \/ needle = ""
    \/ text = needle
    \/ << needle, text >> \in {<< "poetry", "children's poetry" >>}

\* " ".join(words) for at most one word
Join(words) == IF words = << >> THEN "" ELSE words[1]

\* the concatenation of the lists of a list, in list order
RECURSIVE Flatten_reversed(_)
Flatten_reversed(lists) ==
    IF lists = << >> THEN << >>
    ELSE Flatten_reversed(Tail(lists)) \o Head(lists)

RECURSIVE Flatten(_)
Flatten(lists) ==
    IF lists = << >> THEN << >>
    ELSE Head(lists) \o Flatten(Tail(lists))

\* list.sort(key=..., reverse=True), keys[i] being the key of s[i]:
\* descending and stable
StableSortDesc(s, keys) ==
    LET pos(j) == Cardinality({k \in 1..Len(s) : keys[k] > keys[j]})
                  + Cardinality({k \in 1..(j - 1) : keys[k] = keys[j]}) + 1
    IN  [p \in 1..Len(s) |-> s[CHOOSE j \in 1..Len(s) : pos(j) = p]]

\* a // b of Python for b # 0
FloorDiv(a, b) == IF b > 0 THEN a \div b ELSE (0 - a) \div (0 - b)

\* an item of the article adapters
Article(url, title, description, source) ==
    [url |-> url, title |-> title, description |-> description,
     thumbnail |-> PageEmoji, type |-> "article", category |-> "article",
     source |-> source]

\* an item of search_openlibrary: no category; the thumbnail is the cover URL
\* or None (modelled as "", equally falsy)
Book(url, title, thumbnail) ==
    [url |-> url, title |-> title, description |-> "By Unknown",
     thumbnail |-> thumbnail, type |-> "book", category |-> "",
     source |-> "OpenLibrary"]

\* an item of search_internet_archive: type "archive", no category
Archive(url, title, description) ==
    [url |-> url, title |-> title, description |-> description,
     thumbnail |-> "cover", type |-> "archive", category |-> "",
     source |-> "Internet Archive"]

\* the lists an adapter of search_content_library can return on success; the
\* titles of the model are not URLs
ContentOutputs(adapter) ==
    CASE adapter = "search_openalex_articles" ->
            { << Article("x", "Alpha", "d", "OpenAlex"),
                 Article("y", "Beta", "d", "OpenAlex") >>,
              << Article("", "Alpha", "d", "OpenAlex"),
                 Article("", "Gamma", "d", "OpenAlex") >>,
              << >> }
      [] adapter = "search_arxiv_articles" ->
            { << Article("x", "Alpha", "d", "arXiv"),
                 Article("z", "alpha", "d", "arXiv") >>,
              << Article("z", "Delta", "", "arXiv") >> }
      [] adapter = "search_pubmed_articles" ->
            { << Article("p", "Beta", "d", "PubMed Central") >> }
      [] adapter = "search_wikipedia_articles" ->
            { << Article("w", "", "", "Wikipedia"),
                 Article("", "", "d", "Wikipedia") >> }
      [] adapter = "search_doaj_articles" ->
            { << Article("", "Alpha", "d", "DOAJ") >>,
              << Article("x", "Epsilon", "d", "DOAJ") >> }
      [] adapter = "search_openlibrary" ->
            { << Book("ol1", "Alpha", ""), Book("ol2", "Beta", "cover") >>,
              << >> }
      [] adapter = "search_internet_archive" ->
            { << Archive("ia1", "Gamma", "") >> }

\* an image of the image adapters
Image(id, source, image_type) ==
    [id |-> id, source |-> source, image_type |-> image_type]

\* what an image adapter can return on success: a page of images and the
\* provider's count of all matches
ImageOutputs(adapter) ==
    CASE adapter = "search_unsplash_images" ->
            { [images |-> << Image("u1", "unsplash", "photo"),
                             Image("u2", "unsplash", "photo") >>, total |-> 40] }
      [] adapter = "search_pexels_images" ->
            { [images |-> << Image("p1", "pexels", "photo") >>, total |-> 1],
              [images |-> << >>, total |-> 0] }
      [] adapter = "search_pixabay_images" ->
            { [images |-> << Image("x1", "pixabay", "photo"),
                             Image("x2", "pixabay", "illustration") >>,
               total |-> 2] }

\* an item of the children's literature adapters
ChildBook(title, subjects, popularity, source) ==
    [title |-> title, category |-> "stories", subjects |-> subjects,
     popularity |-> popularity, source |-> source]

\* the lists an adapter of search_childrens_literature can return on success
ChildrenOutputs(adapter) ==
    CASE adapter = "search_gutenberg_children" ->
            { << ChildBook("Alpha", << >>, 10, "Project Gutenberg"),
                 ChildBook("Beta", << >>, 50, "Project Gutenberg") >> }
      [] adapter = "search_storyweaver" ->
            { << ChildBook(" alpha ", << >>, 99, "StoryWeaver") >>, << >> }
      [] adapter = "search_openlibrary_children" ->
            { << ChildBook("ALPHA", << "Children's poetry" >>, 100,
                           "Open Library") >> }
      [] adapter = "search_internet_archive_children" ->
            { << ChildBook("Gamma", << >>, 0, "Internet Archive") >> }

\* what an adapter returns when its request fails: the exception is caught
\* inside the adapter, which returns [] (the image adapters an empty page
\* with total 0)
AdapterFailure == [done |-> TRUE, items |-> << >>, total |-> 0]

\* a result of a task that has not completed
Pending == [done |-> FALSE, items |-> << >>, total |-> 0]

-----------------------------------------------------------------------------
(* The curated catalog                                                     *)

\* FREE_EDUCATIONAL_BOOKS in catalog order: id is the position of the book,
\* matches the lower-cased queries of the model found in its title, author,
\* category, subject or description
FREE_EDUCATIONAL_BOOKS == <<
    [id |-> 1, category |-> "stories", grade_level |-> <<"elementary", "middle">>, matches |-> {}],
    [id |-> 2, category |-> "stories", grade_level |-> <<"middle", "high">>, matches |-> {"the"}],
    [id |-> 3, category |-> "stories", grade_level |-> <<"elementary", "middle">>, matches |-> {"the"}],
    [id |-> 4, category |-> "stories", grade_level |-> <<"high", "university">>, matches |-> {}],
    [id |-> 5, category |-> "stories", grade_level |-> <<"high", "university">>, matches |-> {"the"}],
    [id |-> 6, category |-> "poetry", grade_level |-> <<"middle", "high">>, matches |-> {"the"}],
    [id |-> 7, category |-> "poetry", grade_level |-> <<"high", "university">>, matches |-> {}],
    [id |-> 8, category |-> "poetry", grade_level |-> <<"preschool", "elementary">>, matches |-> {}],
    [id |-> 9, category |-> "grammar", grade_level |-> <<"middle", "high", "university">>, matches |-> {"the"}],
    [id |-> 10, category |-> "grammar", grade_level |-> <<"elementary", "middle">>, matches |-> {}],
    [id |-> 11, category |-> "math", grade_level |-> <<"middle", "high">>, matches |-> {"math", "the"}],
    [id |-> 12, category |-> "math", grade_level |-> <<"elementary", "middle">>, matches |-> {"math", "the"}],
    [id |-> 13, category |-> "math", grade_level |-> <<"high">>, matches |-> {"math", "the"}],
    [id |-> 14, category |-> "science", grade_level |-> <<"high", "university">>, matches |-> {"the"}],
    [id |-> 15, category |-> "science", grade_level |-> <<"high", "university">>, matches |-> {"the"}],
    [id |-> 16, category |-> "stories", grade_level |-> <<"preschool", "elementary">>, matches |-> {}],
    [id |-> 17, category |-> "stories", grade_level |-> <<"elementary", "middle">>, matches |-> {"the"}],
    [id |-> 18, category |-> "stories", grade_level |-> <<"elementary", "middle">>, matches |-> {"the"}],
    [id |-> 19, category |-> "stories", grade_level |-> <<"elementary", "middle">>, matches |-> {"the"}],
    [id |-> 20, category |-> "stories", grade_level |-> <<"middle", "high">>, matches |-> {"the"}],
    [id |-> 21, category |-> "stories", grade_level |-> <<"middle", "high">>, matches |-> {"the"}],
    [id |-> 22, category |-> "stories", grade_level |-> <<"middle", "high">>, matches |-> {"the"}],
    [id |-> 23, category |-> "stories", grade_level |-> <<"high", "university">>, matches |-> {"the"}],
    [id |-> 24, category |-> "stories", grade_level |-> <<"high", "university">>, matches |-> {"the"}],
    [id |-> 25, category |-> "stories", grade_level |-> <<"high", "university">>, matches |-> {"the"}],
    [id |-> 26, category |-> "stories", grade_level |-> <<"elementary", "middle">>, matches |-> {}],
    [id |-> 27, category |-> "stories", grade_level |-> <<"middle", "high">>, matches |-> {"the"}],
    [id |-> 28, category |-> "stories", grade_level |-> <<"middle", "high">>, matches |-> {"the"}],
    [id |-> 29, category |-> "stories", grade_level |-> <<"high", "university">>, matches |-> {"the"}],
    [id |-> 30, category |-> "stories", grade_level |-> <<"middle", "high">>, matches |-> {"the"}],
    [id |-> 31, category |-> "stories", grade_level |-> <<"middle", "high">>, matches |-> {"the"}],
    [id |-> 32, category |-> "stories", grade_level |-> <<"elementary", "middle">>, matches |-> {"the"}],
    [id |-> 33, category |-> "stories", grade_level |-> <<"middle", "high">>, matches |-> {"the"}],
    [id |-> 34, category |-> "stories", grade_level |-> <<"high", "university">>, matches |-> {"the"}],
    [id |-> 35, category |-> "stories", grade_level |-> <<"high", "university">>, matches |-> {}],
    [id |-> 36, category |-> "stories", grade_level |-> <<"high", "university">>, matches |-> {}],
    [id |-> 37, category |-> "stories", grade_level |-> <<"elementary", "middle", "high">>, matches |-> {}],
    [id |-> 38, category |-> "stories", grade_level |-> <<"high", "university">>, matches |-> {"the"}],
    [id |-> 39, category |-> "stories", grade_level |-> <<"middle", "high">>, matches |-> {"the"}],
    [id |-> 40, category |-> "stories", grade_level |-> <<"middle", "high">>, matches |-> {"the"}],
    [id |-> 41, category |-> "stories", grade_level |-> <<"elementary", "middle">>, matches |-> {"the"}],
    [id |-> 42, category |-> "stories", grade_level |-> <<"middle", "high">>, matches |-> {"the"}],
    [id |-> 43, category |-> "stories", grade_level |-> <<"middle", "high">>, matches |-> {"the"}],
    [id |-> 44, category |-> "stories", grade_level |-> <<"elementary", "middle">>, matches |-> {"the"}],
    [id |-> 45, category |-> "stories", grade_level |-> <<"elementary", "middle">>, matches |-> {"the"}],
    [id |-> 46, category |-> "stories", grade_level |-> <<"elementary", "middle">>, matches |-> {"the"}],
    [id |-> 47, category |-> "stories", grade_level |-> <<"elementary", "middle">>, matches |-> {}],
    [id |-> 48, category |-> "stories", grade_level |-> <<"elementary", "middle">>, matches |-> {"the"}],
    [id |-> 49, category |-> "stories", grade_level |-> <<"high", "university">>, matches |-> {}],
    [id |-> 50, category |-> "stories", grade_level |-> <<"high", "university">>, matches |-> {"the"}],
    [id |-> 51, category |-> "stories", grade_level |-> <<"preschool", "elementary">>, matches |-> {"the"}],
    [id |-> 52, category |-> "stories", grade_level |-> <<"elementary", "middle">>, matches |-> {"the"}],
    [id |-> 53, category |-> "stories", grade_level |-> <<"elementary", "middle">>, matches |-> {}],
    [id |-> 54, category |-> "stories", grade_level |-> <<"elementary", "middle">>, matches |-> {}],
    [id |-> 55, category |-> "stories", grade_level |-> <<"middle", "high">>, matches |-> {"the"}],
    [id |-> 56, category |-> "stories", grade_level |-> <<"middle", "high">>, matches |-> {"the"}],
    [id |-> 57, category |-> "stories", grade_level |-> <<"middle", "high">>, matches |-> {"the"}],
    [id |-> 58, category |-> "poetry", grade_level |-> <<"preschool", "elementary">>, matches |-> {"the"}],
    [id |-> 59, category |-> "stories", grade_level |-> <<"preschool", "elementary">>, matches |-> {"the"}],
    [id |-> 60, category |-> "stories", grade_level |-> <<"preschool", "elementary", "middle">>, matches |-> {"the"}],
    [id |-> 61, category |-> "stories", grade_level |-> <<"middle", "high">>, matches |-> {"the"}],
    [id |-> 62, category |-> "stories", grade_level |-> <<"high", "university">>, matches |-> {"the"}]
>>

-----------------------------------------------------------------------------
(* Requests                                                                *)

\* category "article" dispatches five adapters, "book" two, "podcast" none
ContentRequests ==
    { [category |-> "article", page |-> 1, per_page |-> 50],
      [category |-> "article", page |-> 1, per_page |-> 2],
      [category |-> "article", page |-> 2, per_page |-> 2],
      [category |-> "article", page |-> 1, per_page |-> 0],
      [category |-> "article", page |-> 1, per_page |-> -1],
      [category |-> "book", page |-> 1, per_page |-> 50],
      [category |-> "book", page |-> 2, per_page |-> 1],
      [category |-> "podcast", page |-> 1, per_page |-> 50],
      [category |-> "all", page |-> 1, per_page |-> 50] }

\* image_type "" stands for None; the keys say whether the environment
\* holds UNSPLASH_API_KEY and PIXABAY_API_KEY
ImageRequests ==
    { [source |-> "all", image_type |-> "", page |-> 1, per_page |-> 50,
       unsplash_key |-> TRUE, pixabay_key |-> TRUE],
      [source |-> "all", image_type |-> "illustration", page |-> 1,
       per_page |-> 50, unsplash_key |-> TRUE, pixabay_key |-> TRUE],
      [source |-> "all", image_type |-> "photo", page |-> 2, per_page |-> 2,
       unsplash_key |-> TRUE, pixabay_key |-> TRUE],
      [source |-> "all", image_type |-> "", page |-> 1, per_page |-> 0,
       unsplash_key |-> FALSE, pixabay_key |-> TRUE],
      [source |-> "pexels", image_type |-> "", page |-> 1, per_page |-> 1,
       unsplash_key |-> FALSE, pixabay_key |-> FALSE] }

ChildrenRequests ==
    { [category |-> "all", page |-> 1, per_page |-> 50],
      [category |-> "all", page |-> 2, per_page |-> 1],
      [category |-> "all", page |-> 1, per_page |-> 0],
      [category |-> "stories", page |-> 1, per_page |-> 1],
      [category |-> "poetry", page |-> 1, per_page |-> 50] }

\* page >= 1 and per_page <= 100 are all the endpoints require
Pages == {1, 2, 3}

PageSizes == {-1, 0, 1, 10, 50, PerPageMax}

FreeBooksRequests ==
    [category : {"all", "stories", "math", "zzz"}, grade : {"all", "high"},
     page : Pages, per_page : PageSizes]

FreeBooksSearches ==
    [query : {"Math", "the", "zzz"}, grade : {"all", "high"},
     page : Pages, per_page : PageSizes]

-----------------------------------------------------------------------------
(* Handlers                                                                *)

\* the body of a 200 response
Page(op, items, total, page, per_page, total_pages, sources) ==
    [op |-> op, status |-> 200, items |-> items, total |-> total,
     page |-> page, per_page |-> per_page, total_pages |-> total_pages,
     has_next |-> page < total_pages, has_prev |-> page > 1,
     sources |-> sources]

\* the handler's except branch: HTTPException(status_code=500)
Http500(op, page, per_page) ==
    [op |-> op, status |-> 500, page |-> page, per_page |-> per_page]

\* x in list
InList(x, list) == \E i \in 1..Len(list) : list[i] = x

\* the tasks search_content_library dispatches, in dispatch order (the
\* course, video and resource adapters of the other categories are left out)
ContentTasks(category) ==
    (IF category \in {"all", "article"}
     THEN << "search_openalex_articles", "search_arxiv_articles",
             "search_pubmed_articles", "search_wikipedia_articles",
             "search_doaj_articles" >>
     ELSE << >>)
    \o (IF category \in {"all", "book"}
        THEN << "search_openlibrary", "search_internet_archive" >>
        ELSE << >>)

get_active_sources_v2(category) ==
    CASE category = "article" ->
            << "OpenAlex", "arXiv (Open Access)", "PubMed Central",
               "Wikipedia (CC BY-SA)", "DOAJ (Open Access)" >>
      [] category = "book" ->
            << "OpenLibrary", "Internet Archive (Public Domain)" >>
      [] OTHER ->
            << "OpenStax (CC BY)", "CK-12 (CC BY-NC)", "MIT OCW (CC BY-NC-SA)",
               "Wikiversity (CC BY-SA)", "Wikibooks (CC BY-SA)",
               "YouTube (CC BY)", "Internet Archive (Public Domain)",
               "OER Commons (CC BY/SA)", "Wikimedia Commons (CC BY-SA)",
               "Library of Congress (Public Domain)" >>

\* key = url or title, with title first
DedupeKey_title_first(r) == IF r.title # "" THEN r.title ELSE r.url

\* key = url or title
DedupeKey(r) == IF r.url # "" THEN r.url ELSE r.title

\* the dedupe loop of search_content_library from item i on
RECURSIVE UniqueResults(_, _, _)
UniqueResults(all_results, i, seen_urls) ==
    IF i > Len(all_results)
    THEN << >>
    ELSE LET key == DedupeKey(all_results[i])
         IN  IF key # "" /\ key \notin seen_urls
             THEN << all_results[i] >>
                  \o UniqueResults(all_results, i + 1, seen_urls \cup {key})
             ELSE UniqueResults(all_results, i + 1, seen_urls)

\* the sort key (has description, has a real thumbnail) as one number that
\* orders like the tuple
\* ContentRank with the thumbnail as the leading component of the key
ContentRank_thumbnail_first(x) ==
    (IF x.description # "" THEN 1 ELSE 0)
    + 2 * (IF x.thumbnail # "" /\ x.thumbnail # PageEmoji THEN 1 ELSE 0)

ContentRank(x) ==
    2 * (IF x.description # "" THEN 1 ELSE 0)
    + (IF x.thumbnail # "" /\ x.thumbnail # PageEmoji THEN 1 ELSE 0)

\* the list search_content_library paginates: gathered in dispatch order,
\* filtered by category, deduplicated, sorted
ContentResults(results, category) ==
    LET gathered == Flatten([i \in 1..Len(results) |-> results[i].items])
        filtered == IF category # "all"
                    THEN SelectSeq(gathered,
                            LAMBDA r : r.type = category \/ r.category = category)
                    ELSE gathered
        unique_results == UniqueResults(filtered, 1, {})
    IN  StableSortDesc(unique_results,
                       [i \in 1..Len(unique_results) |-> ContentRank(unique_results[i])])

search_content_library(results, category, page, per_page) ==
    LET all_results == ContentResults(results, category)
        total_results == Len(all_results)
        start_idx == (page - 1) * per_page
    IN  IF per_page = 0
        THEN Http500("search_content_library", page, per_page)
        ELSE Page("search_content_library",
                  Slice(all_results, start_idx, start_idx + per_page),
                  total_results, page, per_page,
                  Max(1, FloorDiv(total_results + per_page - 1, per_page)),
                  get_active_sources_v2(category))

\* the tasks search_images dispatches; the Pexels key has a default
ImageTasks(req) ==
    LET is_pixabay_only_type == req.image_type \in {"illustration", "vector"}
    IN  (IF req.unsplash_key /\ req.source \in {"all", "unsplash"}
            /\ ~is_pixabay_only_type
         THEN << "search_unsplash_images" >> ELSE << >>)
        \o (IF req.source \in {"all", "pexels"} /\ ~is_pixabay_only_type
            THEN << "search_pexels_images" >> ELSE << >>)
        \o (IF req.pixabay_key /\ req.source \in {"all", "pixabay"}
            THEN << "search_pixabay_images" >> ELSE << >>)

\* the elements of s without repeats, in order of first appearance
FirstSeen(s) ==
    LET idx == {i \in 1..Len(s) : \A j \in 1..(i - 1) : s[j] # s[i]}
    IN  [k \in 1..Cardinality(idx) |->
           s[CHOOSE i \in idx : Cardinality({j \in idx : j < i}) = k - 1]]

RECURSIVE SumTotals(_)
SumTotals(results) ==
    IF results = << >> THEN 0 ELSE Head(results).total + SumTotals(Tail(results))

search_images(results, image_type, page, per_page) ==
    LET gathered == Flatten([i \in 1..Len(results) |-> results[i].items])
        total_available == SumTotals(results)
        images == IF image_type # "" /\ image_type # "all"
                  THEN SelectSeq(gathered, LAMBDA img : img.image_type = image_type)
                  ELSE gathered
        sources == FirstSeen([i \in 1..Len(images) |-> images[i].source])
        source_list(src) == SelectSeq(images, LAMBDA img : img.source = src)
        max_len == IF sources = << >> THEN 0
                   ELSE CHOOSE n \in 0..Len(images) :
                          /\ \E k \in 1..Len(sources) : Len(source_list(sources[k])) = n
                          /\ \A k \in 1..Len(sources) : Len(source_list(sources[k])) <= n
        round(i) == LET having == SelectSeq(sources,
                                     LAMBDA src : i <= Len(source_list(src)))
                    IN  [k \in 1..Len(having) |-> source_list(having[k])[i]]
        combined == Flatten([i \in 1..max_len |-> round(i)])
    IN  IF total_available > 0 /\ per_page = 0
        THEN Http500("search_images", page, per_page)
        ELSE Page("search_images", Slice(combined, 0, per_page),
                  total_available, page, per_page,
                  IF total_available > 0
                  THEN FloorDiv(total_available + per_page - 1, per_page)
                  ELSE 1,
                  sources)

ChildrenTasks ==
    << "search_gutenberg_children", "search_storyweaver",
       "search_openlibrary_children", "search_internet_archive_children" >>

\* the dedupe loop of search_childrens_literature from item i on
RECURSIVE UniqueTitles(_, _, _)
UniqueTitles(all_results, i, seen_titles) ==
    IF i > Len(all_results)
    THEN << >>
    ELSE LET title_key == Strip(Lower(all_results[i].title))
         IN  IF title_key \notin seen_titles
             THEN << all_results[i] >>
                  \o UniqueTitles(all_results, i + 1, seen_titles \cup {title_key})
             ELSE UniqueTitles(all_results, i + 1, seen_titles)

Popularity(x) == x.popularity

search_childrens_literature(results, category, page, per_page) ==
    LET gathered == Flatten([i \in 1..Len(results) |-> results[i].items])
        filtered == IF category # "all"
                    THEN SelectSeq(gathered,
                            LAMBDA r : \/ Contains(Lower(r.category), Lower(category))
                                       \/ Contains(Lower(Join(r.subjects)),
                                                   Lower(category)))
                    ELSE gathered
        deduped == UniqueTitles(filtered, 1, {})
        unique_results == StableSortDesc(deduped,
                             [i \in 1..Len(deduped) |-> Popularity(deduped[i])])
        total_results == Len(unique_results)
        start_idx == (page - 1) * per_page
    IN  IF per_page = 0
        THEN Http500("search_childrens_literature", page, per_page)
        ELSE Page("search_childrens_literature",
                  Slice(unique_results, start_idx, start_idx + per_page),
                  total_results, page, per_page,
                  FloorDiv(total_results + per_page - 1, per_page),
                  << "Project Gutenberg", "StoryWeaver", "Open Library" >>)

\* the grade filter of the two catalog endpoints
GradeFilter(books, grade) ==
    IF grade # "all"
    THEN SelectSeq(books, LAMBDA b : InList(grade, b.grade_level))
    ELSE books

\* the pagination with each page starting one book early
BooksPage_overlap(op, books, page, per_page) ==
    LET total_books == Len(books)
        start_idx == Max((page - 1) * per_page - 1, 0)
    IN  IF per_page = 0
        THEN Http500(op, page, per_page)
        ELSE Page(op, Slice(books, start_idx, start_idx + per_page),
                  total_books, page, per_page,
                  FloorDiv(total_books + per_page - 1, per_page), << >>)

\* the pagination of the two catalog endpoints (their responses list no sources)
BooksPage(op, books, page, per_page) ==
    LET total_books == Len(books)
        start_idx == (page - 1) * per_page
    IN  IF per_page = 0
        THEN Http500(op, page, per_page)
        ELSE Page(op, Slice(books, start_idx, start_idx + per_page),
                  total_books, page, per_page,
                  FloorDiv(total_books + per_page - 1, per_page), << >>)

get_free_books(category, grade, page, per_page) ==
    LET books == IF category # "all"
                 THEN SelectSeq(FREE_EDUCATIONAL_BOOKS,
                                LAMBDA b : b.category = category)
                 ELSE FREE_EDUCATIONAL_BOOKS
    IN  BooksPage("get_free_books", GradeFilter(books, grade), page, per_page)

search_free_books(query, grade, page, per_page) ==
    LET query_lower == Lower(query)
        matching_books == SelectSeq(FREE_EDUCATIONAL_BOOKS,
                                    LAMBDA b : query_lower \in b.matches)
    IN  BooksPage("search_free_books", GradeFilter(matching_books, grade),
                  page, per_page)

-----------------------------------------------------------------------------
(* Actions of the fan-out searches and the catalog endpoints               *)

\* the state of a search whose tasks were just dispatched
Dispatched(op, req, tasks) ==
    [op |-> op, req |-> req, tasks |-> tasks,
     results |-> [i \in 1..Len(tasks) |-> Pending],
     failed |-> {}, last_done |-> 0, done |-> FALSE]

StartContentSearch(req) ==
    /\ fan.done
    /\ fan' = Dispatched("search_content_library", req, ContentTasks(req.category))
    /\ resp' = NoResp
    /\ UNCHANGED cacheVars

StartImageSearch(req) ==
    /\ fan.done
    /\ fan' = Dispatched("search_images", req, ImageTasks(req))
    /\ resp' = NoResp
    /\ UNCHANGED cacheVars

StartChildrenSearch(req) ==
    /\ fan.done
    /\ fan' = Dispatched("search_childrens_literature", req, ChildrenTasks)
    /\ resp' = NoResp
    /\ UNCHANGED cacheVars

\* what task i of the running search can return on success
Outputs(i) ==
    CASE fan.op = "search_content_library" ->
            {[done |-> TRUE, items |-> o, total |-> 0] :
                o \in ContentOutputs(fan.tasks[i])}
      [] fan.op = "search_images" ->
            {[done |-> TRUE, items |-> o.images, total |-> o.total] :
                o \in ImageOutputs(fan.tasks[i])}
      [] fan.op = "search_childrens_literature" ->
            {[done |-> TRUE, items |-> o, total |-> 0] :
                o \in ChildrenOutputs(fan.tasks[i])}

\* task i completes with a result of its provider
AdapterReturns(i) ==
    /\ ~fan.done
    /\ i \in 1..Len(fan.tasks)
    /\ ~fan.results[i].done
    /\ \E out \in Outputs(i) :
          fan' = [fan EXCEPT !.results[i] = out, !.last_done = i]
    /\ UNCHANGED << resp, cacheVars >>

\* the request of task i fails or times out
AdapterFails(i) ==
    /\ ~fan.done
    /\ i \in 1..Len(fan.tasks)
    /\ ~fan.results[i].done
    /\ fan' = [fan EXCEPT !.results[i] = AdapterFailure,
                          !.failed = @ \cup {i}, !.last_done = i]
    /\ UNCHANGED << resp, cacheVars >>

\* asyncio.gather returns and the handler builds its response
Gather ==
    /\ ~fan.done
    /\ \A i \in 1..Len(fan.tasks) : fan.results[i].done
    /\ resp' =
          CASE fan.op = "search_content_library" ->
                  search_content_library(fan.results, fan.req.category,
                                         fan.req.page, fan.req.per_page)
            [] fan.op = "search_images" ->
                  search_images(fan.results, fan.req.image_type,
                                fan.req.page, fan.req.per_page)
            [] fan.op = "search_childrens_literature" ->
                  search_childrens_literature(fan.results, fan.req.category,
                                              fan.req.page, fan.req.per_page)
    /\ fan' = [fan EXCEPT !.done = TRUE]
    /\ UNCHANGED cacheVars

DoGetFreeBooks(req) ==
    /\ fan.done
    /\ resp' = get_free_books(req.category, req.grade, req.page, req.per_page)
    /\ fan' = [NoFan EXCEPT !.op = "get_free_books", !.req = req]
    /\ UNCHANGED cacheVars

DoSearchFreeBooks(req) ==
    /\ fan.done
    /\ resp' = search_free_books(req.query, req.grade, req.page, req.per_page)
    /\ fan' = [NoFan EXCEPT !.op = "search_free_books", !.req = req]
    /\ UNCHANGED cacheVars

NextSearch ==
    \/ \E req \in ContentRequests : StartContentSearch(req)
    \/ \E req \in ImageRequests : StartImageSearch(req)
    \/ \E req \in ChildrenRequests : StartChildrenSearch(req)
    \/ \E i \in 1..7 : AdapterReturns(i)
    \/ \E i \in 1..7 : AdapterFails(i)
    \/ Gather
    \/ \E req \in FreeBooksRequests : DoGetFreeBooks(req)
    \/ \E req \in FreeBooksSearches : DoSearchFreeBooks(req)

SpecSearch == Init /\ [][NextSearch]_vars

-----------------------------------------------------------------------------
(* Properties of the fan-out searches and of pagination                    *)

\* a fan-out search has returned
FanReturned == fan.op # "none" /\ fan.done

ContentReturned == fan.op = "search_content_library" /\ fan.done

\* the tasks whose request did not fail
Succeeded == {i \in 1..Len(fan.tasks) : i \notin fan.failed}

SeqSet(s) == {s[i] : i \in 1..Len(s)}

\* the name under which the sources lists know an adapter
AdapterLabel(adapter) ==
    CASE adapter = "search_openalex_articles" -> "OpenAlex"
      [] adapter = "search_arxiv_articles" -> "arXiv (Open Access)"
      [] adapter = "search_pubmed_articles" -> "PubMed Central"
      [] adapter = "search_wikipedia_articles" -> "Wikipedia (CC BY-SA)"
      [] adapter = "search_doaj_articles" -> "DOAJ (Open Access)"
      [] adapter = "search_openlibrary" -> "OpenLibrary"
      [] adapter = "search_internet_archive" -> "Internet Archive (Public Domain)"
      [] adapter = "search_unsplash_images" -> "unsplash"
      [] adapter = "search_pexels_images" -> "pexels"
      [] adapter = "search_pixabay_images" -> "pixabay"
      [] adapter = "search_gutenberg_children" -> "Project Gutenberg"
      [] adapter = "search_storyweaver" -> "StoryWeaver"
      [] adapter = "search_openlibrary_children" -> "Open Library"
      [] adapter = "search_internet_archive_children" -> "Internet Archive"

\* C3: when a fan-out search returns after at least one adapter failed and at
\* least one succeeded (per_page >= 1), the call answers 200, every item of
\* the page comes from the output of an adapter that succeeded, and the
\* sources list names exactly the adapters that succeeded.
C3_PartialFailureSources ==
    (FanReturned /\ fan.failed # {} /\ Succeeded # {} /\ fan.req.per_page >= 1)
       => /\ resp.status = 200
          /\ \A k \in 1..Len(resp.items) :
                \E i \in Succeeded : InList(resp.items[k], fan.results[i].items)
          /\ SeqSet(resp.sources) = {AdapterLabel(fan.tasks[i]) : i \in Succeeded}

\* the list search_content_library built before paginating
BuiltList == ContentResults(fan.results, fan.req.category)

\* url or title, the key of an item
KeyOf(r) == IF r.url = "" THEN r.title ELSE r.url

\* no two items of the list have the same url or the same title ignoring case
NoSameUrlOrTitle(list) ==
    \A i, j \in 1..Len(list) :
       i < j => /\ list[i].url # list[j].url
                /\ Lower(list[i].title) # Lower(list[j].title)

\* no two items of the list have the same key, nor the same non-empty url
NoSameKey(list) ==
    \A i, j \in 1..Len(list) :
       i < j => /\ KeyOf(list[i]) # KeyOf(list[j])
                /\ list[i].url # "" => list[i].url # list[j].url

PassesFilter(r) ==
    \/ fan.req.category = "all"
    \/ r.type = fan.req.category
    \/ r.category = fan.req.category

\* the tasks that returned an item with the url that passes the filter
TasksWithUrl(url) ==
    {i \in 1..Len(fan.tasks) :
        \E k \in 1..Len(fan.results[i].items) :
           fan.results[i].items[k].url = url /\ PassesFilter(fan.results[i].items[k])}

\* the first item with the url in the output of the earliest such task
EarliestCopy(url) ==
    LET first == CHOOSE i \in TasksWithUrl(url) : \A j \in TasksWithUrl(url) : i <= j
        items == SelectSeq(fan.results[first].items,
                           LAMBDA r : r.url = url /\ PassesFilter(r))
    IN  items[1]

\* the outputs A = [x, y] and B = [x, z] of the first two adapters
OutputA ==
    << Article("x", "Alpha", "d", "OpenAlex"), Article("y", "Beta", "d", "OpenAlex") >>

OutputB ==
    << Article("x", "Alpha", "d", "arXiv"), Article("z", "alpha", "d", "arXiv") >>

\* the first two adapters returned A and B and the others nothing
OnlyAandB ==
    /\ ContentReturned
    /\ Len(fan.tasks) = 5
    /\ fan.results[1].items = OutputA
    /\ fan.results[2].items = OutputB
    /\ \A i \in 3..5 : fan.results[i].items = << >>

\* C5: of the items with one non-empty url that the adapters of a
\* search_content_library call returned, the list keeps exactly one, the copy
\* of the adapter earliest in dispatch order, whichever adapter completed
\* last; every item of the page is from that list; for the outputs
\* A = [x, y] and B = [x, z] the list is x (the copy of A), y, z.
C5_EarliestDispatchWins ==
    ContentReturned
       => /\ \A i \in 1..Len(fan.tasks) :
                \A k \in 1..Len(fan.results[i].items) :
                   LET it == fan.results[i].items[k]
                   IN  (it.url # "" /\ PassesFilter(it))
                          => /\ InList(EarliestCopy(it.url), BuiltList)
                             /\ \A m \in 1..Len(BuiltList) :
                                   BuiltList[m].url = it.url
                                      => BuiltList[m] = EarliestCopy(it.url)
          /\ resp.status = 200
                => \A m \in 1..Len(resp.items) : InList(resp.items[m], BuiltList)
          /\ OnlyAandB
                => BuiltList = << OutputA[1], OutputA[2], OutputB[2] >>

\* A and B were returned, A completed after B, and the page is x of A, y, z
C5_Witness ==
    /\ OnlyAandB
    /\ fan.last_done = 1
    /\ fan.req.per_page = 50
    /\ resp.items = << OutputA[1], OutputA[2], OutputB[2] >>

\* C6: when every adapter a fan-out search dispatched failed (per_page >= 1),
\* the call answers 200 with zero items, total 0 and an empty sources list.
C6_AllAdaptersFail ==
    (FanReturned /\ fan.tasks # << >> /\ Succeeded = {} /\ fan.req.per_page >= 1)
       => /\ resp.status = 200
          /\ resp.items = << >>
          /\ resp.total = 0
          /\ resp.sources = << >>

\* ceil(n / d) of Python for d # 0
CeilDiv(n, d) == 0 - FloorDiv(0 - n, d)

\* C10: every response of content-library/search, childrens-literature,
\* free-books and free-books/search to an accepted request (page >= 1,
\* per_page <= 100) is a page with len(items) <= per_page and
\* total_pages = ceil(total / per_page).
C10_PageArithmetic ==
    resp.op \in {"search_content_library", "search_childrens_literature",
                 "get_free_books", "search_free_books"}
       => /\ resp.status = 200
          /\ Len(resp.items) <= resp.per_page
          /\ resp.total_pages = CeilDiv(resp.total, resp.per_page)

-----------------------------------------------------------------------------
(* Properties of the catalog pages                                         *)

\* get_free_books answered a request with per_page >= 1
FreeBooksReturned == fan.op = "get_free_books" /\ fan.req.per_page >= 1

\* the catalog books the filter of the request keeps, in catalog order
FilteredCatalog ==
    SelectSeq(FREE_EDUCATIONAL_BOOKS,
              LAMBDA b : /\ fan.req.category = "all" \/ b.category = fan.req.category
                         /\ fan.req.grade = "all" \/ InList(fan.req.grade, b.grade_level))

\* the books of page p of the request's filter and per_page
PageOf(p) ==
    get_free_books(fan.req.category, fan.req.grade, p, fan.req.per_page).items

\* the pages 1..p one after the other
RECURSIVE PagesUpTo(_)
PagesUpTo(p) == IF p = 0 THEN << >> ELSE PagesUpTo(p - 1) \o PageOf(p)

\* C11: for get_free_books with a fixed filter and per_page >= 1, the page
\* returned is the slice [(p-1)*per_page, p*per_page) of the filtered catalog,
\* it shares no book with any other page, the pages 1..total_pages one after
\* the other are the filtered catalog in catalog order, and a page beyond
\* total_pages is empty.
C11_PagesPartitionCatalog ==
    FreeBooksReturned
       => LET n  == Len(FilteredCatalog)
              pp == fan.req.per_page
              p  == fan.req.page
          IN  /\ resp.status = 200
              /\ resp.items = SubSeq(FilteredCatalog, (p - 1) * pp + 1, Min(p * pp, n))
              /\ \A q \in 1..(resp.total_pages + 1) :
                    q # p => SeqSet(PageOf(q)) \cap SeqSet(resp.items) = {}
              /\ PagesUpTo(resp.total_pages) = FilteredCatalog
              /\ p > resp.total_pages => resp.items = << >>
              /\ PageOf(resp.total_pages + 1) = << >>

\* page 2 of the whole catalog at 50 per page holds the last 12 of 62 books
C11_Witness ==
    /\ FreeBooksReturned
    /\ fan.req.category = "all" /\ fan.req.grade = "all"
    /\ fan.req.page = 2 /\ fan.req.per_page = 50
    /\ resp.total = 62 /\ resp.total_pages = 2
    /\ Len(resp.items) = 12
    /\ resp.items[1].id = 51

-----------------------------------------------------------------------------
(* The license classifier (routes/content.py).  A string is the sequence   *)
(* of its characters, so that lower(), strip() and the substring test are  *)
(* computed; a Python value is a string, None, or an absent dict entry.    *)

\* items per list handed to filter_cc_licensed_content
MaxItems == 2

\* the characters of a list of strings
ALLOWED_CC_LICENSES ==
   << << "c", "c", " ", "b", "y" >>,
      << "c", "c", "-", "b", "y" >>,
      << "c", "c", " ", "b", "y", " ", "4", ".", "0" >>,
      << "c", "c", " ", "b", "y", " ", "3", ".", "0" >>,
      << "c", "r", "e", "a", "t", "i", "v", "e", " ", "c", "o", "m", "m", "o", "n", "s" >>,
      << "c", "c", " ", "b", "y", "-", "s", "a" >>,
      << "c", "c", "-", "b", "y", "-", "s", "a" >>,
      << "c", "c", " ", "b", "y", " ", "s", "a" >>,
      << "c", "c", " ", "b", "y", "-", "n", "d" >>,
      << "c", "c", "-", "b", "y", "-", "n", "d" >>,
      << "c", "c", " ", "b", "y", " ", "n", "d" >>,
      << "c", "c", "0" >>,
      << "p", "u", "b", "l", "i", "c", " ", "d", "o", "m", "a", "i", "n" >>,
      << "p", "d" >>,
      << "n", "o", " ", "k", "n", "o", "w", "n", " ", "c", "o", "p", "y", "r", "i", "g", "h", "t" >>,
      << "o", "p", "e", "n", " ", "a", "c", "c", "e", "s", "s" >>,
      << "o", "p", "e", "n", "-", "a", "c", "c", "e", "s", "s" >> >>

ALWAYS_CC_SOURCES ==
   << << "o", "p", "e", "n", "s", "t", "a", "x" >>,
      << "w", "i", "k", "i", "v", "e", "r", "s", "i", "t", "y" >>,
      << "w", "i", "k", "i", "b", "o", "o", "k", "s" >>,
      << "w", "i", "k", "i", "m", "e", "d", "i", "a" >>,
      << "w", "i", "k", "i", "p", "e", "d", "i", "a" >>,
      << "o", "e", "r", " ", "c", "o", "m", "m", "o", "n", "s" >>,
      << "i", "n", "t", "e", "r", "n", "e", "t", " ", "a", "r", "c", "h", "i", "v", "e" >>,
      << "l", "i", "b", "r", "a", "r", "y", " ", "o", "f", " ", "c", "o", "n", "g", "r", "e", "s", "s" >>,
      << "y", "o", "u", "t", "u", "b", "e", " ", "(", "c", "c", ")" >>,
      << "t", "e", "d" >>,
      << "a", "r", "x", "i", "v" >>,
      << "p", "u", "b", "m", "e", "d" >>,
      << "d", "o", "a", "j" >>,
      << "c", "k", "-", "1", "2" >>,
      << "f", "r", "e", "e", "c", "o", "d", "e", "c", "a", "m", "p" >>,
      << "m", "i", "t", " ", "o", "p", "e", "n", "c", "o", "u", "r", "s", "e", "w", "a", "r", "e" >>,
      << "p", "r", "o", "j", "e", "c", "t", " ", "g", "u", "t", "e", "n", "b", "e", "r", "g" >>,
      << "s", "t", "o", "r", "y", "w", "e", "a", "v", "e", "r" >>,
      << "o", "p", "e", "n", " ", "l", "i", "b", "r", "a", "r", "y" >> >>

\* a Python string, None, and a key the dict does not hold
PyStr(s) == [kind |-> "str", s |-> s]

PyNone == [kind |-> "none", s |-> << >>]

Absent == [kind |-> "absent", s |-> << >>]

\* result.get(key, default) for the dict entry
DictGet(entry, default) == IF entry.kind = "absent" THEN default ELSE entry

\* str(v)
Str(v) == IF v.kind = "none" THEN << "N", "o", "n", "e" >> ELSE v.s

\* str.lower() of one character
LowerChar(c) ==
    CASE c = "A" -> "a"
      [] c = "B" -> "b"
      [] c = "C" -> "c"
      [] c = "D" -> "d"
      [] c = "E" -> "e"
      [] c = "F" -> "f"
      [] c = "G" -> "g"
      [] c = "H" -> "h"
      [] c = "I" -> "i"
      [] c = "J" -> "j"
      [] c = "K" -> "k"
      [] c = "L" -> "l"
      [] c = "M" -> "m"
      [] c = "N" -> "n"
      [] c = "O" -> "o"
      [] c = "P" -> "p"
      [] c = "Q" -> "q"
      [] c = "R" -> "r"
      [] c = "S" -> "s"
      [] c = "T" -> "t"
      [] c = "U" -> "u"
      [] c = "V" -> "v"
      [] c = "W" -> "w"
      [] c = "X" -> "x"
      [] c = "Y" -> "y"
      [] c = "Z" -> "z"
      [] OTHER -> c

\* str.lower()
StrLower(s) == [i \in 1..Len(s) |-> LowerChar(s[i])]

\* str.strip(): leading and trailing blanks removed
RECURSIVE StrStrip(_)
StrStrip(s) ==
    IF s = << >> THEN s
    ELSE IF Head(s) = " " THEN StrStrip(Tail(s))
    ELSE IF s[Len(s)] = " " THEN StrStrip(SubSeq(s, 1, Len(s) - 1))
    ELSE s

\* needle in text
Includes(needle, text) ==
    \E i \in 0..(Len(text) - Len(needle)) :
       SubSeq(text, i + 1, i + Len(needle)) = needle

\* any(n in text for n in needles)
AnyIncluded(needles, text) ==
    \E k \in 1..Len(needles) : Includes(needles[k], text)

\* a value returned, and an exception raised
Returned(v) == [outcome |-> "ok", value |-> v]

Raised(e) == [outcome |-> "raise", value |-> e]

\* the defaults dict of get_source_default_license, in insertion order
SourceDefaults ==
    << << << "o", "p", "e", "n", "s", "t", "a", "x" >>,
          << "C", "C", " ", "B", "Y", " ", "4", ".", "0" >> >>,
       << << "w", "i", "k", "i", "p", "e", "d", "i", "a" >>,
          << "C", "C", " ", "B", "Y", "-", "S", "A", " ", "3", ".", "0" >> >>,
       << << "w", "i", "k", "i", "v", "e", "r", "s", "i", "t", "y" >>,
          << "C", "C", " ", "B", "Y", "-", "S", "A", " ", "3", ".", "0" >> >>,
       << << "w", "i", "k", "i", "b", "o", "o", "k", "s" >>,
          << "C", "C", " ", "B", "Y", "-", "S", "A", " ", "3", ".", "0" >> >>,
       << << "p", "r", "o", "j", "e", "c", "t", " ", "g", "u", "t", "e", "n", "b", "e", "r", "g" >>,
          << "P", "u", "b", "l", "i", "c", " ", "D", "o", "m", "a", "i", "n" >> >>,
       << << "i", "n", "t", "e", "r", "n", "e", "t", " ", "a", "r", "c", "h", "i", "v", "e" >>,
          << "P", "u", "b", "l", "i", "c", " ", "D", "o", "m", "a", "i", "n" >> >>,
       << << "s", "t", "o", "r", "y", "w", "e", "a", "v", "e", "r" >>,
          << "C", "C", " ", "B", "Y", " ", "4", ".", "0" >> >>,
       << << "o", "p", "e", "n", " ", "l", "i", "b", "r", "a", "r", "y" >>,
          << "P", "u", "b", "l", "i", "c", " ", "D", "o", "m", "a", "i", "n" >> >>,
       << << "a", "r", "x", "i", "v" >>,
          << "O", "p", "e", "n", " ", "A", "c", "c", "e", "s", "s" >> >>,
       << << "t", "e", "d" >>,
          << "C", "C", " ", "B", "Y", "-", "N", "C", "-", "N", "D", " ", "4", ".", "0" >> >> >>

get_source_default_license(source) ==
    LET source_lower == StrLower(source)
        hits == {k \in 1..Len(SourceDefaults) :
                    Includes(SourceDefaults[k][1], source_lower)}
    IN  IF hits = {}
        THEN << "C", "C", " ", "B", "Y" >>
        ELSE SourceDefaults[CHOOSE k \in hits : \A j \in hits : k <= j][2]

\* normalize_cc_license of a license that is None raises AttributeError
normalize_cc_license(license_str, source) ==
    IF license_str.kind # "str"
    THEN Raised("AttributeError")
    ELSE LET license_lower == StrStrip(StrLower(license_str.s))
             default == get_source_default_license(source)
         IN  IF AnyIncluded(<< << "p", "u", "b", "l", "i", "c", " ", "d", "o", "m", "a", "i", "n" >>, << "p", "d" >>, << "c", "c", "0" >> >>, license_lower)
             THEN Returned(<< "P", "u", "b", "l", "i", "c", " ", "D", "o", "m", "a", "i", "n", " ", "(", "C", "C", "0", ")" >>)
             ELSE IF Includes(<< "b", "y", "-", "s", "a" >>, license_lower)
                     \/ Includes(<< "s", "h", "a", "r", "e", " ", "a", "l", "i", "k", "e" >>, license_lower)
             THEN Returned(<< "C", "C", " ", "B", "Y", "-", "S", "A", " ", "4", ".", "0" >>)
             ELSE IF Includes(<< "b", "y", "-", "n", "d" >>, license_lower)
             THEN Returned(<< "C", "C", " ", "B", "Y", "-", "N", "D", " ", "4", ".", "0" >>)
             ELSE IF AnyIncluded(<< << "c", "c", " ", "b", "y" >>, << "c", "r", "e", "a", "t", "i", "v", "e", " ", "c", "o", "m", "m", "o", "n", "s" >>, << "a", "t", "t", "r", "i", "b", "u", "t", "i", "o", "n" >> >>,
                                 license_lower)
             THEN Returned(<< "C", "C", " ", "B", "Y", " ", "4", ".", "0" >>)
             ELSE IF Includes(<< "o", "p", "e", "n", " ", "a", "c", "c", "e", "s", "s" >>, license_lower)
             THEN Returned(<< "O", "p", "e", "n", " ", "A", "c", "c", "e", "s", "s", " ", "(", "C", "C", " ", "B", "Y", ")" >>)
             ELSE Returned(IF default # << >> THEN default ELSE license_str.s)

\* the items kept whatever their license and source
IsKept_everything(license_str, source_str) == TRUE

\* is_cc_source or is_cc_license
IsKept(license_str, source_str) ==
    \/ AnyIncluded(ALWAYS_CC_SOURCES, source_str)
    \/ AnyIncluded(ALLOWED_CC_LICENSES, license_str)

\* the loop of filter_cc_licensed_content from item i on; a kept item gets
\* its license normalized and cc_verified set
RECURSIVE FilterFrom(_, _, _)
FilterFrom(results, i, filtered) ==
    IF i > Len(results)
    THEN Returned(filtered)
    ELSE LET result == results[i]
             license_str == StrStrip(StrLower(Str(DictGet(result.license, PyStr(<< >>)))))
             source_str == StrStrip(StrLower(Str(DictGet(result.source, PyStr(<< >>)))))
         IN  IF IsKept(license_str, source_str)
             THEN LET n == normalize_cc_license(DictGet(result.license, PyStr(<< >>)),
                                                source_str)
                  IN  IF n.outcome = "raise"
                      THEN n
                      ELSE FilterFrom(results, i + 1,
                              Append(filtered,
                                     [result EXCEPT !.license = PyStr(n.value),
                                                    !.cc_verified = TRUE]))
             ELSE FilterFrom(results, i + 1, filtered)

filter_cc_licensed_content(results) == FilterFrom(results, 1, << >>)

\* the license entries and the source entries of the result dicts
LicenseEntries ==
    { Absent, PyNone, PyStr(<< >>),
      PyStr(<< "C", "C", " ", "B", "Y", " ", "4", ".", "0" >>),
      PyStr(<< "A", "l", "l", " ", "R", "i", "g", "h", "t", "s", " ", "R", "e", "s", "e", "r", "v", "e", "d" >>),
      PyStr(<< "c", "c", "-", "b", "y" >>),
      PyStr(<< " ", "P", "u", "b", "l", "i", "c", " ", "D", "o", "m", "a", "i", "n", " " >>),
      PyStr(<< "P", "r", "o", "p", "r", "i", "e", "t", "a", "r", "y" >>),
      PyStr(<< "C", "C", " ", "B", "Y", "-", "S", "A", " ", "3", ".", "0" >>),
      PyStr(<< "O", "p", "e", "n", " ", "A", "c", "c", "e", "s", "s" >>) }

SourceEntries ==
    { Absent, PyNone,
      PyStr(<< "o", "p", "e", "n", "s", "t", "a", "x" >>),
      PyStr(<< " ", "O", "p", "e", "n", "S", "t", "a", "x", " ", "C", "N", "X", " " >>),
      PyStr(<< "u", "n", "k", "n", "o", "w", "n", "s", "o", "u", "r", "c", "e" >>),
      PyStr(<< "P", "u", "b", "M", "e", "d", " ", "C", "e", "n", "t", "r", "a", "l" >>) }

\* a result dict; id stands for the fields the classifier does not read
Result(id, license, source) ==
    [id |-> id, license |-> license, source |-> source, cc_verified |-> FALSE]

\* the dicts of the lists of more than one item
ListItems ==
    { << PyStr(<< "C", "C", " ", "B", "Y", " ", "4", ".", "0" >>), PyStr(<< "u", "n", "k", "n", "o", "w", "n", "s", "o", "u", "r", "c", "e" >>) >>,
      << PyStr(<< "A", "l", "l", " ", "R", "i", "g", "h", "t", "s", " ", "R", "e", "s", "e", "r", "v", "e", "d" >>), PyStr(<< "u", "n", "k", "n", "o", "w", "n", "s", "o", "u", "r", "c", "e" >>) >>,
      << PyStr(<< >>), PyStr(<< "o", "p", "e", "n", "s", "t", "a", "x" >>) >>,
      << PyNone, PyStr(<< "u", "n", "k", "n", "o", "w", "n", "s", "o", "u", "r", "c", "e" >>) >>,
      << PyNone, PyStr(<< "o", "p", "e", "n", "s", "t", "a", "x" >>) >> }

\* sequences of at most n elements of S, n > 0
RECURSIVE SeqsUpTo(_, _)
SeqsUpTo(S, n) ==
    IF n = 0 THEN {<< >>}
    ELSE LET shorter == SeqsUpTo(S, n - 1)
         IN  shorter \cup {Append(s, x) : s \in shorter, x \in S}

\* the lists handed to filter_cc_licensed_content, as <<license, source>> pairs
ResultLists ==
    SeqsUpTo(ListItems, MaxItems)
       \cup {<< << l, s >> >> : l \in LicenseEntries, s \in SourceEntries}

\* the arguments handed to normalize_cc_license directly
NormalizeLicenses == {l \in LicenseEntries : l.kind # "absent"}

NormalizeSources ==
    { << >>, << "o", "p", "e", "n", "s", "t", "a", "x" >>,
      << "u", "n", "k", "n", "o", "w", "n", "s", "o", "u", "r", "c", "e" >>,
      << "p", "u", "b", "m", "e", "d", " ", "c", "e", "n", "t", "r", "a", "l" >> }

DoFilterCcLicensedContent(pairs) ==
    /\ fan.done
    /\ LET results == [i \in 1..Len(pairs) |-> Result(i, pairs[i][1], pairs[i][2])]
       IN  resp' = [op |-> "filter_cc_licensed_content", results |-> results,
                    out |-> filter_cc_licensed_content(results)]
    /\ fan' = NoFan
    /\ UNCHANGED cacheVars

DoNormalizeCcLicense(license_str, source) ==
    /\ fan.done
    /\ resp' = [op |-> "normalize_cc_license", license_str |-> license_str,
                source |-> source,
                out |-> normalize_cc_license(license_str, source)]
    /\ fan' = NoFan
    /\ UNCHANGED cacheVars

NextLicense ==
    \/ \E pairs \in ResultLists : DoFilterCcLicensedContent(pairs)
    \/ \E license_str \in NormalizeLicenses, source \in NormalizeSources :
          DoNormalizeCcLicense(license_str, source)

SpecLicense == Init /\ [][NextLicense]_vars

-----------------------------------------------------------------------------
(* Properties of the license classifier                                    *)

\* the text has the needle as a contiguous part
Occurs(needle, text) ==
    \E i, j \in 0..Len(text) : i <= j /\ SubSeq(text, i + 1, j) = needle

\* the lower-cased, trimmed text of a dict entry
Normalized(entry) ==
    StrStrip(StrLower(IF entry.kind = "str" THEN entry.s
                      ELSE IF entry.kind = "none" THEN << "N", "o", "n", "e" >> ELSE << >>))

OnAllowList(source) ==
    \E k \in 1..Len(ALWAYS_CC_SOURCES) : Occurs(ALWAYS_CC_SOURCES[k], source)

PermissiveLicense(license) ==
    \E k \in 1..Len(ALLOWED_CC_LICENSES) : Occurs(ALLOWED_CC_LICENSES[k], license)

\* the item is usable: allow-listed source or permissive license
Usable(result) ==
    OnAllowList(Normalized(result.source)) \/ PermissiveLicense(Normalized(result.license))

FilterReturned ==
    resp.op = "filter_cc_licensed_content" /\ resp.out.outcome = "ok"

\* the ids of the items the filter returned
KeptIds == [i \in 1..Len(resp.out.value) |-> resp.out.value[i].id]

\* C12: a filter_cc_licensed_content call that returns keeps an item if and
\* only if its source contains an allow-listed source or its lower-cased,
\* trimmed license contains a permissive-license substring, the kept items
\* being in input order; an item with an unrecognized license and an
\* unrecognized source is not kept.
C12_FilterKeepsUsable ==
    FilterReturned
       => /\ KeptIds = SelectSeq([i \in 1..Len(resp.results) |-> i],
                                 LAMBDA i : Usable(resp.results[i]))
          /\ \A i \in 1..Len(resp.results) :
                (/\ resp.results[i].license = PyStr(<< "A", "l", "l", " ", "R", "i", "g", "h", "t", "s", " ", "R", "e", "s", "e", "r", "v", "e", "d" >>)
                 /\ resp.results[i].source = PyStr(<< "u", "n", "k", "n", "o", "w", "n", "s", "o", "u", "r", "c", "e" >>))
                   => ~InList(i, KeptIds)

\* of an "All Rights Reserved" item of an unknown source followed by an item
\* of openstax without license, the second alone is kept
C12_Witness ==
    /\ FilterReturned
    /\ Len(resp.results) = 2
    /\ resp.results[1].license = PyStr(<< "A", "l", "l", " ", "R", "i", "g", "h", "t", "s", " ", "R", "e", "s", "e", "r", "v", "e", "d" >>)
    /\ resp.results[1].source = PyStr(<< "u", "n", "k", "n", "o", "w", "n", "s", "o", "u", "r", "c", "e" >>)
    /\ resp.results[2].license = PyStr(<< >>)
    /\ resp.results[2].source = PyStr(<< "o", "p", "e", "n", "s", "t", "a", "x" >>)
    /\ KeptIds = << 2 >>

\* a substring rule of normalize_cc_license matches the license
RuleMatches(license_lower) ==
    \E needle \in { << "p", "u", "b", "l", "i", "c", " ", "d", "o", "m", "a", "i", "n" >>,
                    << "p", "d" >>, << "c", "c", "0" >>,
                    << "b", "y", "-", "s", "a" >>,
                    << "s", "h", "a", "r", "e", " ", "a", "l", "i", "k", "e" >>,
                    << "b", "y", "-", "n", "d" >>,
                    << "c", "c", " ", "b", "y" >>,
                    << "c", "r", "e", "a", "t", "i", "v", "e", " ", "c", "o", "m", "m", "o", "n", "s" >>,
                    << "a", "t", "t", "r", "i", "b", "u", "t", "i", "o", "n" >>,
                    << "o", "p", "e", "n", " ", "a", "c", "c", "e", "s", "s" >> } :
       Occurs(needle, license_lower)

CanonicalTags ==
    { << "P", "u", "b", "l", "i", "c", " ", "D", "o", "m", "a", "i", "n", " ", "(", "C", "C", "0", ")" >>,
      << "C", "C", " ", "B", "Y", "-", "S", "A", " ", "4", ".", "0" >>,
      << "C", "C", " ", "B", "Y", "-", "N", "D", " ", "4", ".", "0" >>,
      << "C", "C", " ", "B", "Y", " ", "4", ".", "0" >>,
      << "O", "p", "e", "n", " ", "A", "c", "c", "e", "s", "s", " ", "(", "C", "C", " ", "B", "Y", ")" >> }

\* C13: normalize_cc_license of a license string returns a canonical tag when
\* a substring rule matches, the default tag of the source when no rule
\* matches and the source is allow-listed, and the license string unchanged
\* in every other case.
C13_NormalizeFallback ==
    (resp.op = "normalize_cc_license" /\ resp.license_str.kind = "str")
       => LET rule == RuleMatches(StrStrip(StrLower(resp.license_str.s)))
              listed == OnAllowList(StrLower(resp.source))
          IN  /\ resp.out.outcome = "ok"
              /\ rule => resp.out.value \in CanonicalTags
              /\ (~rule /\ listed)
                    => resp.out.value = get_source_default_license(resp.source)
              /\ (~rule /\ ~listed) => resp.out.value = resp.license_str.s

\* C14: filter_cc_licensed_content and normalize_cc_license return a value
\* for every item, also when its license or source is absent, empty or null.
C14_ClassifierTotal ==
    resp.op \in {"filter_cc_licensed_content", "normalize_cc_license"}
       => resp.out.outcome = "ok"

-----------------------------------------------------------------------------
(* get_cache_key called on its own                                         *)

\* the dict holding the entries of params in the order perm
Reordered(params, perm) == [i \in 1..Len(params) |-> params[perm[i]]]

\* the dicts equal to params: every insertion order of its entries
InsertionOrders(params) ==
    {Reordered(params, perm) : perm \in Permutations(1..Len(params))}

\* the parameter dicts of the callers, in every insertion order
KeyParams ==
    UNION {InsertionOrders(params) :
              params \in { SearchParams("q1", None, "relevance"),
                           SearchParams("q1", Some("p2"), "date"),
                           << <<"ids", JoinIds(<<1, 2>>)>> >> }}

DoGetCacheKey(operation, params) ==
    /\ last' = Last("get_cache_key", << operation, params >>, "ok",
                    Some(get_cache_key(operation, params)),
                    << >>, << >>, << >>, << >>, None)
    /\ UNCHANGED << now, etag_cache, data_cache, cache_timestamps, yc_cache,
                    yc_timestamps, lastWrite, calls, ycLastWrite, fan, resp, dbVars >>

\* get_cache_key in the states writes, clears and the clock produce
NextKey ==
    \/ \E t \in TimePoints : Tick(t)
    \/ \E key \in RawKeys, data \in RawPayloads, etag \in RawEtags :
          DoSetCache(key, data, etag)
    \/ clear_youtube_cache
    \/ \E operation \in {"search", "videos"}, params \in KeyParams :
          DoGetCacheKey(operation, params)

SpecKey == Init /\ [][NextKey]_vars

\* C15: the key get_cache_key returned for (operation, params) is the key it
\* gives for every insertion order of the same parameter map, in the state
\* of the call and with every cache empty.
C15_CacheKeyPure ==
    last.op = "get_cache_key"
       => \A params \in InsertionOrders(last.args[2]) :
             /\ get_cache_key(last.args[1], params) = last.result[1]
             /\ last.result[1][1] = last.args[1]
             /\ \A i \in 1..Len(params) : InList(params[i], last.result[1][2])

\* the key of the search parameters given in reverse insertion order, asked
\* for with a non-empty cache
C15_Witness ==
    /\ last.op = "get_cache_key"
    /\ last.args[2] = Reordered(SearchParams("q1", None, "relevance"), <<4, 3, 2, 1>>)
    /\ last.result[1] = get_cache_key("search", SearchParams("q1", None, "relevance"))
    /\ data_cache # EmptyDict

\* ---------------------------------------------------------------------------
\* The durable cache: YouTubePersistentCache over the youtube_api_cache
\* collection (server.py).  Every call is one MongoDB operation, atomic on
\* the collection; calls are taken one after another.
\* ---------------------------------------------------------------------------

CACHE_TTL_HOURS == 6

SecondsPerHour == 3600

\* clock readings around the six-hour expiry of entries stored at 0 and at 1
DurableTimePoints == {0, 1, 21599, 21600, 21601}

MaxDurableCalls == 3

\* queries as sequences of characters, so that the key's text is computed
DurableQueries == { << "a" >>, << "a", ":", "1" >> }

DurableMinViews == {1, 11}

DurableData == { << >>, << "v1" >>, << "v1", "v2" >> }

Digit(d) == << "0", "1", "2", "3", "4", "5", "6", "7", "8", "9" >>[d + 1]

RECURSIVE IntStr(_)
\* str(n) of a natural number, as the f-string formats min_views
IntStr(n) == IF n < 10 THEN << Digit(n) >> ELSE IntStr(n \div 10) \o << Digit(n % 10) >>

\* cache_key = f"search:{query}:{min_views}"
PersistentKey(query, min_views) ==
    << "s", "e", "a", "r", "c", "h", ":" >> \o query \o << ":" >> \o IntStr(min_views)

IsUnexpired_inclusive(doc, t) == doc.expires_at >= t

\* the filter "expires_at": {"$gt": now}
IsUnexpired(doc, t) == doc.expires_at > t

\* positions of the documents matching {"cache_key": cache_key}
Matching(coll, cache_key) == { i \in 1..Len(coll) : coll[i].cache_key = cache_key }

\* the first matching document, in the collection's order
FirstOf(S) == CHOOSE x \in S : \A y \in S : x <= y

\* find_one({"cache_key": ..., "expires_at": {"$gt": now}}): the first match
get_cached_search(coll, query, min_views, t) ==
    LET hits == { i \in Matching(coll, PersistentKey(query, min_views)) : IsUnexpired(coll[i], t) }
    IN  IF hits = {} THEN None ELSE Some(coll[FirstOf(hits)].data)

CacheDocument(query, min_views, data, t) ==
    [cache_key  |-> PersistentKey(query, min_views),
     query      |-> query,
     min_views  |-> min_views,
     data       |-> data,
     expires_at |-> t + CACHE_TTL_HOURS * SecondsPerHour,
     updated_at |-> t]

\* update_one({"cache_key": ...}, {"$set": ...}, upsert=True): the first
\* matching document is overwritten, a new one is inserted when none matches
set_cached_search(coll, query, min_views, data, t) ==
    LET m == Matching(coll, PersistentKey(query, min_views))
    IN  IF m = {}
        THEN Append(coll, CacheDocument(query, min_views, data, t))
        ELSE [coll EXCEPT ![FirstOf(m)] = CacheDocument(query, min_views, data, t)]

\* delete_many({"expires_at": {"$lt": now}})
cleanup_expired(coll, t) == SelectSeq(coll, LAMBDA doc : ~(doc.expires_at < t))

Advance(t) ==
    /\ t > now
    /\ now' = t
    /\ UNCHANGED << etag_cache, data_cache, cache_timestamps, yc_cache, yc_timestamps,
                    lastWrite, ycLastWrite, last, calls, fan, resp, dbVars >>

DurableUnchanged ==
    UNCHANGED << now, etag_cache, data_cache, cache_timestamps, yc_cache, yc_timestamps,
                 lastWrite, ycLastWrite, last, fan, db_videos, reading_lists, inflight >>

DoGetCachedSearch(query, min_views) ==
    /\ calls < MaxDurableCalls
    /\ calls' = calls + 1
    /\ resp' = [op |-> "get_cached_search", query |-> query, min_views |-> min_views,
                at |-> now, out |-> get_cached_search(db_cache, query, min_views, now)]
    /\ UNCHANGED << db_cache, dbLastSet >>
    /\ DurableUnchanged

DoSetCachedSearch(query, min_views, data) ==
    /\ calls < MaxDurableCalls
    /\ calls' = calls + 1
    /\ db_cache' = set_cached_search(db_cache, query, min_views, data, now)
    /\ dbLastSet' = Put(dbLastSet, PersistentKey(query, min_views), [data |-> data, at |-> now])
    /\ resp' = [op |-> "set_cached_search", query |-> query, min_views |-> min_views,
                data |-> data, at |-> now]
    /\ DurableUnchanged

DoCleanupExpired ==
    /\ calls < MaxDurableCalls
    /\ calls' = calls + 1
    /\ db_cache' = cleanup_expired(db_cache, now)
    /\ resp' = [op |-> "cleanup_expired", at |-> now]
    /\ UNCHANGED dbLastSet
    /\ DurableUnchanged

NextDurable ==
    \/ \E t \in DurableTimePoints : Advance(t)
    \/ \E query \in DurableQueries, min_views \in DurableMinViews :
           DoGetCachedSearch(query, min_views)
    \/ \E query \in DurableQueries, min_views \in DurableMinViews, data \in DurableData :
           DoSetCachedSearch(query, min_views, data)
    \/ DoCleanupExpired

SpecDurable == Init /\ [][NextDurable]_vars

\* --- claim C16 ---------------------------------------------------------------

StoredData(coll) == [i \in 1..Len(coll) |-> [cache_key |-> coll[i].cache_key, data |-> coll[i].data]]

OneRecordPerKey ==
    \A i, j \in 1..Len(db_cache) : db_cache[i].cache_key = db_cache[j].cache_key => i = j

ReadBeforeExpiry(k, t) ==
    /\ k \in DOMAIN dbLastSet
    /\ t < dbLastSet[k].at + CACHE_TTL_HOURS * SecondsPerHour

\* C16: after any sequence of set_cached_search, get_cached_search and
\* cleanup_expired calls the collection holds at most one record per cache
\* key; a get returns the data of the last set of its key when it reads
\* before that set's time + 6 hours and misses at or after it (and when the
\* key was never set); repeating the set just made, with the same arguments,
\* leaves the same stored data.
C16_DurableCache ==
    /\ OneRecordPerKey
    /\ resp.op = "get_cached_search" =>
           LET k == PersistentKey(resp.query, resp.min_views)
           IN  IF ReadBeforeExpiry(k, resp.at)
               THEN resp.out = Some(dbLastSet[k].data)
               ELSE resp.out = None
    /\ resp.op = "set_cached_search" =>
           StoredData(set_cached_search(db_cache, resp.query, resp.min_views, resp.data, now))
               = StoredData(db_cache)

\* a get that reads exactly at expires_at of a record still in the collection,
\* after the key was set twice with different data
C16_Witness ==
    /\ resp.op = "get_cached_search"
    /\ LET k == PersistentKey(resp.query, resp.min_views)
       IN  /\ k \in DOMAIN dbLastSet
           /\ dbLastSet[k].at = 1
           /\ resp.at = 1 + CACHE_TTL_HOURS * SecondsPerHour
           /\ Matching(db_cache, k) # {}
           /\ resp.out = None

\* ---------------------------------------------------------------------------
\* GET /discover (server.py discover_videos), with YOUTUBE_API_KEY set.  The
\* handler is taken as one step: no other request runs between its awaits.
\* ---------------------------------------------------------------------------

MaxDiscoverCalls == 2

DiscoverMaxResults == 50

DiscoverQueries == { << "a" >>, << "n" >>, << "z" >> }

DiscoverMinViews == {1000}

\* clock readings around the 30-minute and the six-hour expiry
DiscoverTimePoints == {0, 1800, 1801, 21601}

\* what the provider answers to one request: a payload, 304 Not Modified, an
\* HttpError whose text holds "quotaExceeded", or another HttpError
DiscoverAnswers == {"ok", "304", "quotaExceeded", "error"}

\* one answer for each of the three searches the handler can issue and one
\* for the details request
AnswerLists == [1..4 -> DiscoverAnswers]

DiscoverRequests ==
    [query : DiscoverQueries, min_views : DiscoverMinViews,
     page_token : PageTokens, skip_cache : BOOLEAN,
     max_results : {DiscoverMaxResults}, sort_by : {"viewCount"}]

\* statistics, status and contentDetails of the provider's videos
VideoFacts(id) ==
    CASE id = 1 -> [license |-> "creativeCommon", views |-> 5000, likes |-> 500,
                    comments |-> 0, duration |-> 600, days_ago |-> 0]
      [] id = 2 -> [license |-> "creativeCommon", views |-> 2000, likes |-> 400,
                    comments |-> 100, duration |-> 600, days_ago |-> 50]
      [] id = 3 -> [license |-> "creativeCommon", views |-> 50000, likes |-> 0,
                    comments |-> 0, duration |-> 61, days_ago |-> 200]

\* calculate_viral_score, in hundredths (exact for the videos above)
calculate_viral_score(views, likes, comments, upload_days_ago) ==
    IF views = 0 THEN 0
    ELSE Min(((likes + comments * 2) * 100 * 70) \div views
             + Max(0, 100 - upload_days_ago) * 30, 10000)

Take(s, n) == IF n >= Len(s) THEN s ELSE IF n <= 0 THEN << >> ELSE SubSeq(s, 1, n)

\* search_query = query.strip() if query else "tutorial"
SearchQuery(query) == IF query # << >> THEN StrStrip(query) ELSE << "t", "u", "t", "o", "r", "i", "a", "l" >>

\* alt_queries
AltQueries(query, search_query) ==
    << search_query \o CreativeCommonsSuffix,
       IF query = << >> THEN << "c", "r", "e", "a", "t", "i", "v", "e", " ", "c", "o", "m", "m", "o", "n", "s", " ", "t", "u", "t", "o", "r", "i", "a", "l" >> ELSE search_query >>

\* the loop over videos_response["items"]: the videos kept, in response order
KeptVideos(items, min_views) ==
    LET keep(item) == LET f == VideoFacts(item[1])
                      IN  /\ f.license = "creativeCommon"
                          /\ ~(f.views < min_views)
                          /\ ~(f.duration < 60 \/ f.duration > 3600)
        kept == SelectSeq(items, keep)
    IN  [i \in 1..Len(kept) |->
           LET f == VideoFacts(kept[i][1])
           IN  [id |-> kept[i][1], views |-> f.views,
                viral_score |-> calculate_viral_score(f.views, f.likes, f.comments, f.days_ago)]]

\* videos.sort(key=viral_score, reverse=True); videos[:max_results]
RankedVideos(videos, max_results) ==
    Take(StableSortDesc(videos, [i \in 1..Len(videos) |-> videos[i].viral_score]),
         max_results)

\* the search_videos calls of the handler: the first search and, on a first
\* page without results, the alternative queries until one has results.
\* Returns the cache, the calls made, the ids found and whether one raised.
RECURSIVE AltSearches(_, _, _, _, _, _)
AltSearches(a, alts, k, order, ans, t) ==
    IF k > Len(alts) \/ a.raised \/ a.video_ids # << >>
    THEN a
    ELSE LET s == search_videos(a.c, alts[k], None, order, ans[k + 1], t)
         IN  AltSearches([c |-> s.c, searches |-> Append(a.searches, s),
                          raised |-> s.outcome = "error",
                          video_ids |-> IF s.outcome = "error" THEN << >>
                                        ELSE s.result[1].items],
                         alts, k + 1, order, ans, t)

\* if sort_by not in valid_sorts: sort_by = "viewCount"
ValidSort(sort_by) ==
    IF sort_by \in {"viewCount", "date", "rating", "relevance"} THEN sort_by
    ELSE "viewCount"

Searches(c, req, ans, t) ==
    LET search_query == SearchQuery(req.query)
        sort_by == ValidSort(req.sort_by)
        s  == search_videos(c, search_query, req.page_token, sort_by, ans[1], t)
        a1 == [c |-> s.c, searches |-> << s >>, raised |-> s.outcome = "error",
               video_ids |-> IF s.outcome = "error" THEN << >> ELSE s.result[1].items]
    IN  IF req.page_token = None
        THEN AltSearches(a1, AltQueries(req.query, search_query), 1, sort_by, ans, t)
        ELSE a1

\* the answers the handler did not consume are "ok"; a 304 answers only a
\* conditional request
FeasibleAnswers(searches, details, ans) ==
    /\ \A i \in 1..Len(searches) : searches[i].feasible
    /\ \A i \in (Len(searches) + 1)..3 : ans[i] = "ok"
    /\ IF details = None THEN ans[4] = "ok" ELSE details[1].feasible

\* some request of the handler was answered with quotaExceeded
QuotaSignalled(searches, details) ==
    \/ \E i \in 1..Len(searches) : "quotaExceeded" \in SeqSet(searches[i].answers)
    \/ details # None /\ "quotaExceeded" \in SeqSet(details[1].answers)

RECURSIVE AllWrites(_)
AllWrites(calls_made) ==
    IF calls_made = << >> THEN << >> ELSE Head(calls_made).writes \o AllWrites(Tail(calls_made))

Answer(status, kind, videos, message) ==
    [status |-> status, kind |-> kind, videos |-> videos, message |-> message]

\* except HttpError: stored videos on quotaExceeded, else HTTP 429 / 500
OnHttpError(quota, stored) ==
    IF quota
    THEN IF stored # << >>
         THEN Answer(200, "stored_quota", stored, TRUE)
         ELSE Answer(429, "error", << >>, TRUE)
    ELSE Answer(500, "error", << >>, TRUE)

\* step 1 of discover_videos: the durable lookup, made only for a first page
\* without skip_cache
DurableLookup(durable, req, t) ==
    IF req.page_token = None /\ ~req.skip_cache
    THEN get_cached_search(durable, SearchQuery(req.query), req.min_views, t)
    ELSE None

PersistentHit(cached_videos) == cached_videos # None /\ cached_videos[1] # << >>

\* discover_videos after its calls: cached_videos is the durable lookup, found
\* the searches made, details the get_video_details call (None when not made).
\* Returns the two collections after the request and the answer.
discover_videos(cached_videos, found, details, durable, stored_videos, req, t) ==
    LET search_query == SearchQuery(req.query)
        unchanged    == [db_cache |-> durable, db_videos |-> stored_videos, set |-> None]
        stored       == Take(stored_videos, req.max_results)
    IN  IF PersistentHit(cached_videos)
        THEN unchanged @@
             [answer |-> Answer(200, "persistent",
                                Take(cached_videos[1], req.max_results), TRUE)]
        ELSE IF found.raised
        THEN unchanged @@
             [answer |-> OnHttpError(QuotaSignalled(found.searches, None), stored)]
        ELSE IF found.video_ids = << >>
        THEN unchanged @@
             [answer |-> IF stored # << >>
                         THEN Answer(200, "stored_no_results", stored, TRUE)
                         ELSE Answer(200, "none_found", << >>, TRUE)]
        ELSE IF details[1].outcome = "error"
        THEN unchanged @@
             [answer |-> OnHttpError(QuotaSignalled(<< >>, details), stored)]
        ELSE \* videos: kept, sorted by viral_score and cut to max_results
             LET videos == RankedVideos(KeptVideos(details[1].result[1].items, req.min_views),
                                       req.max_results)
             IN  IF videos # << >> /\ req.page_token = None
                 THEN [db_videos |-> videos,
                       db_cache  |-> set_cached_search(durable, search_query, req.min_views,
                                                       Take(videos, req.max_results), t),
                       set       |-> Some(PersistentKey(search_query, req.min_views)),
                       answer    |-> Answer(200, "fresh",
                                            Take(videos, req.max_results), FALSE)]
                 ELSE unchanged @@ [answer |-> Answer(200, "fresh", videos, FALSE)]

\* the handler stops at the first request that raises: the answers after an
\* HttpError other than 304 are not consumed
Plausible(ans) ==
    \A i \in 1..3 : ans[i] \in {"quotaExceeded", "error"} => \A j \in (i + 1)..4 : ans[j] = "ok"

NoSearch == [c |-> TheCache, searches |-> << >>, raised |-> FALSE, video_ids |-> << >>]

DoDiscoverVideos(req, ans) ==
    /\ calls < MaxDiscoverCalls
    /\ Plausible(ans)
    /\ \E cached_videos \in {DurableLookup(db_cache, req, now)} :
       \E found \in {IF PersistentHit(cached_videos) THEN NoSearch
                     ELSE Searches(clear_expired_cache(TheCache, now), req, ans, now)} :
       \E details \in {IF PersistentHit(cached_videos) \/ found.raised \/ found.video_ids = << >>
                       THEN None
                       ELSE Some(get_video_details(found.c, found.video_ids, << ans[4] >>, now))} :
       \E r \in {discover_videos(cached_videos, found, details, db_cache, db_videos, req, now)} :
           /\ FeasibleAnswers(found.searches, details, ans)
           /\ calls' = calls + 1
           /\ Install(IF details = None THEN found.c ELSE details[1].c)
           /\ lastWrite' = Record(lastWrite, AllWrites(found.searches \o details), now)
           /\ db_cache' = r.db_cache
           /\ db_videos' = r.db_videos
           /\ dbLastSet' = IF r.set = None THEN dbLastSet
                           ELSE Put(dbLastSet, r.set[1],
                                    [data |-> r.db_videos, at |-> now, by |-> req])
           /\ resp' = [op |-> "discover_videos", req |-> req, at |-> now,
                       status |-> r.answer.status, kind |-> r.answer.kind,
                       videos |-> r.answer.videos, message |-> r.answer.message,
                       quota |-> QuotaSignalled(found.searches, details),
                       search_calls |-> Len(found.searches),
                       provider_searches |->
                           Cardinality({i \in 1..Len(found.searches) :
                                            found.searches[i].requests # << >>}),
                       durable |-> get_cached_search(db_cache, SearchQuery(req.query),
                                                     req.min_views, now),
                       stored |-> db_videos]
    /\ last' = Idle
    /\ UNCHANGED << now, yc_cache, yc_timestamps, ycLastWrite, fan, reading_lists,
                    inflight >>

\* POST /clear-videos
clear_discovered_videos ==
    /\ calls < MaxDiscoverCalls
    /\ calls' = calls + 1
    /\ db_videos' = << >>
    /\ resp' = [op |-> "clear_discovered_videos"]
    /\ UNCHANGED << now, etag_cache, data_cache, cache_timestamps, yc_cache, yc_timestamps,
                    lastWrite, ycLastWrite, last, fan, db_cache, dbLastSet, reading_lists,
                    inflight >>

NextDiscover ==
    \/ \E t \in DiscoverTimePoints : Advance(t)
    \/ \E req \in DiscoverRequests, ans \in AnswerLists : DoDiscoverVideos(req, ans)
    \/ clear_discovered_videos

SpecDiscover == Init /\ [][NextDiscover]_vars

\* --- claim C17 ---------------------------------------------------------------

QuotaDuringDiscover == resp.op = "discover_videos" /\ resp.quota

DurableHoldsData == resp.durable # None /\ resp.durable[1] # << >>

\* C17: when the provider signals quota exhaustion during discover_videos the
\* request is answered from the durable cache if it holds data for the
\* search, else from the previously discovered videos if there are any, and
\* only when both are empty with an explicit empty result carrying a message;
\* it is never answered with an error.
C17_QuotaFallback ==
    QuotaDuringDiscover =>
        /\ resp.status = 200
        /\ IF DurableHoldsData
           THEN resp.videos = Take(resp.durable[1], DiscoverMaxResults)
           ELSE IF resp.stored # << >>
           THEN resp.videos = Take(resp.stored, DiscoverMaxResults)
           ELSE resp.videos = << >> /\ resp.message

\* --- claim C18 ---------------------------------------------------------------

\* C18: a discover_videos request with skip_cache=true is not answered from
\* the durable cache, none of its searches is answered from the in-memory
\* cache, and it issues a provider search.
C18_SkipCacheBypassesCaches ==
    (resp.op = "discover_videos" /\ resp.req.skip_cache) =>
        /\ resp.kind # "persistent"
        /\ resp.provider_searches = resp.search_calls
        /\ resp.provider_searches >= 1

\* ---------------------------------------------------------------------------
\* Both cache tiers under the invalidation command
\* ---------------------------------------------------------------------------

ClearTimePoints == {0, 1800, 21600}

NextClear ==
    \/ \E t \in ClearTimePoints : Advance(t)
    \/ \E key \in RawKeys, data \in RawPayloads, etag \in RawEtags :
          DoSetCache(key, data, etag)
    \/ \E key \in RawKeys : DoGetCachedData(key)
    \/ \E key \in RawKeys : DoGetEtag(key)
    \/ \E query \in DurableQueries, data \in DurableData :
          DoSetCachedSearch(query, 1, data)
    \/ \E query \in DurableQueries : DoGetCachedSearch(query, 1)
    \/ clear_youtube_cache

SpecClear == Init /\ [][NextClear]_vars

\* --- claim C19 ---------------------------------------------------------------

\* no operation has run since the last clear_youtube_cache
JustCleared == last.op = "clear_youtube_cache" /\ resp.op = "clear_youtube_cache"

AllLookupsMiss ==
    /\ \A key \in RawKeys :
           /\ get_cached_data(TheCache, key, now) = None
           /\ get_etag(TheCache, key) = None
    /\ \A query \in DurableQueries, min_views \in DurableMinViews :
           get_cached_search(db_cache, query, min_views, now) = None

\* C19: right after clear_youtube_cache every in-memory payload lookup and
\* ETag lookup misses and the durable collection holds no record; the command
\* can run in every state and answers 200; run again right after itself it
\* leaves the caches and the stored videos as they are.
C19_ClearEmptiesBothTiers ==
    /\ calls < MaxCalls => ENABLED clear_youtube_cache
    /\ JustCleared =>
           /\ resp.status = 200
           /\ data_cache = EmptyDict /\ etag_cache = EmptyDict
           /\ cache_timestamps = EmptyDict
           /\ db_cache = << >>
           /\ AllLookupsMiss
           /\ calls < MaxCalls =>
                  ENABLED (clear_youtube_cache
                           /\ UNCHANGED << data_cache, etag_cache, cache_timestamps,
                                           db_cache, db_videos, yc_cache, yc_timestamps >>)

\* a clear that found entries in both tiers
C19_Witness ==
    /\ JustCleared
    /\ resp.before.memory # {}
    /\ resp.before.durable > 0

\* ---------------------------------------------------------------------------
\* Reading lists (server.py).  A document keeps id, user_id, is_public, the
\* book_ids of its books array in order, and book_count.  Each handler is
\* taken as one step.
\* ---------------------------------------------------------------------------

MaxLists == 2

MaxListCalls == 4

Users == {"u1", "u2"}

BookIds == {"b1", "b2"}

ListIds == 1..MaxLists

ListUnchanged ==
    UNCHANGED << now, etag_cache, data_cache, cache_timestamps, yc_cache, yc_timestamps,
                 lastWrite, ycLastWrite, last, fan, db_cache, db_videos, dbLastSet, inflight >>

\* str(uuid.uuid4()): an id no document of the collection has
NewListId(coll) == CHOOSE n \in 1..(Len(coll) + 1) : \A i \in 1..Len(coll) : coll[i].id # n

OwnedBy_any(coll, list_id, user_id) == { i \in 1..Len(coll) : coll[i].id = list_id }

\* positions of the documents matching a filter on id and owner
OwnedBy(coll, list_id, user_id) ==
    { i \in 1..Len(coll) : coll[i].id = list_id /\ coll[i].user_id = user_id }

\* {"id": list_id, "$or": [{"user_id": user_id}, {"is_public": True}]}
Readable(coll, list_id, user_id) ==
    { i \in 1..Len(coll) : coll[i].id = list_id
                           /\ (coll[i].user_id = user_id \/ coll[i].is_public) }

WithId(coll, list_id) == { i \in 1..Len(coll) : coll[i].id = list_id }

ListAnswer(op, user_id, list_id, book_id, status) ==
    [op |-> op, user_id |-> user_id, list_id |-> list_id, book_id |-> book_id,
     status |-> status, before |-> reading_lists]

create_reading_list(user_id, is_public) ==
    /\ calls < MaxListCalls
    /\ Len(reading_lists) < MaxLists
    /\ calls' = calls + 1
    /\ reading_lists' = Append(reading_lists,
                               [id |-> NewListId(reading_lists), user_id |-> user_id,
                                is_public |-> is_public, books |-> << >>, book_count |-> 0])
    /\ resp' = ListAnswer("create_reading_list", user_id, NewListId(reading_lists), "", 200)
    /\ ListUnchanged

\* only is_public is kept of the fields the update can set
update_reading_list(user_id, list_id, is_public) ==
    /\ calls < MaxListCalls
    /\ calls' = calls + 1
    /\ IF OwnedBy(reading_lists, list_id, user_id) = {}
       THEN /\ resp' = ListAnswer("update_reading_list", user_id, list_id, "", 404)
            /\ UNCHANGED reading_lists
       ELSE /\ reading_lists' =
                  [reading_lists EXCEPT ![FirstOf(WithId(reading_lists, list_id))].is_public =
                      IF is_public = None THEN @ ELSE is_public[1]]
            /\ resp' = ListAnswer("update_reading_list", user_id, list_id, "", 200)
    /\ ListUnchanged

delete_reading_list(user_id, list_id) ==
    /\ calls < MaxListCalls
    /\ calls' = calls + 1
    /\ LET m == OwnedBy(reading_lists, list_id, user_id)
       IN  IF m = {}
           THEN /\ resp' = ListAnswer("delete_reading_list", user_id, list_id, "", 404)
                /\ UNCHANGED reading_lists
           ELSE /\ reading_lists' =
                      SubSeq(reading_lists, 1, FirstOf(m) - 1)
                          \o SubSeq(reading_lists, FirstOf(m) + 1, Len(reading_lists))
                /\ resp' = ListAnswer("delete_reading_list", user_id, list_id, "", 200)
    /\ ListUnchanged

\* the update_one of add_book_to_list: $push the entry, $inc book_count by 1
PushBook(doc, book_id) ==
    [doc EXCEPT !.books = Append(@, book_id), !.book_count = @ + 1]

add_book_to_list(user_id, list_id, book_id) ==
    /\ calls < MaxListCalls
    /\ calls' = calls + 1
    /\ LET m == OwnedBy(reading_lists, list_id, user_id)
       IN  IF m = {}
           THEN /\ resp' = ListAnswer("add_book_to_list", user_id, list_id, book_id, 404)
                /\ UNCHANGED reading_lists
           ELSE IF book_id \in SeqSet(reading_lists[FirstOf(m)].books)
           THEN /\ resp' = ListAnswer("add_book_to_list", user_id, list_id, book_id, 400)
                /\ UNCHANGED reading_lists
           ELSE /\ reading_lists' =
                      [reading_lists EXCEPT ![FirstOf(WithId(reading_lists, list_id))] =
                          PushBook(@, book_id)]
                /\ resp' = ListAnswer("add_book_to_list", user_id, list_id, book_id, 200)
    /\ ListUnchanged

\* the update_one of remove_book_from_list: $pull the entries with the
\* book_id, $inc book_count by -1
PullBook(doc, book_id) ==
    [doc EXCEPT !.books = SelectSeq(@, LAMBDA b : b # book_id), !.book_count = @ - 1]

remove_book_from_list(user_id, list_id, book_id) ==
    /\ calls < MaxListCalls
    /\ calls' = calls + 1
    /\ LET m == OwnedBy(reading_lists, list_id, user_id)
       IN  IF m = {}
           THEN /\ resp' = ListAnswer("remove_book_from_list", user_id, list_id, book_id, 404)
                /\ UNCHANGED reading_lists
           ELSE \E i \in {FirstOf(WithId(reading_lists, list_id))} :
                \E doc \in {PullBook(reading_lists[i], book_id)} :
                    \* result.modified_count == 0: the update left the document as it was
                    IF doc = reading_lists[i]
                    THEN /\ resp' = ListAnswer("remove_book_from_list", user_id, list_id,
                                               book_id, 404)
                         /\ UNCHANGED reading_lists
                    ELSE /\ reading_lists' = [reading_lists EXCEPT ![i] = doc]
                         /\ resp' = ListAnswer("remove_book_from_list", user_id, list_id,
                                               book_id, 200)
    /\ ListUnchanged

copy_reading_list(user_id, list_id) ==
    /\ calls < MaxListCalls
    /\ calls' = calls + 1
    /\ LET m == Readable(reading_lists, list_id, user_id)
       IN  IF m = {}
           THEN /\ resp' = ListAnswer("copy_reading_list", user_id, list_id, "", 404)
                /\ UNCHANGED reading_lists
           ELSE /\ Len(reading_lists) < MaxLists
                /\ reading_lists' =
                      Append(reading_lists,
                             [id |-> NewListId(reading_lists), user_id |-> user_id,
                              is_public |-> FALSE,
                              books |-> reading_lists[FirstOf(m)].books,
                              book_count |-> reading_lists[FirstOf(m)].book_count])
                /\ resp' = ListAnswer("copy_reading_list", user_id, list_id, "", 200)
    /\ ListUnchanged

\* GET /reading-lists/{list_id}: own lists and public lists can be read
get_reading_list(user_id, list_id) ==
    /\ LET m == Readable(reading_lists, list_id, user_id)
       IN  resp' = IF m = {}
                   THEN ListAnswer("get_reading_list", user_id, list_id, "", 404)
                            @@ [returned |-> None]
                   ELSE ListAnswer("get_reading_list", user_id, list_id, "", 200)
                            @@ [returned |-> Some(reading_lists[FirstOf(m)])]
    /\ UNCHANGED << calls, reading_lists >>
    /\ ListUnchanged

NextLists ==
    \/ \E user_id \in Users, is_public \in BOOLEAN : create_reading_list(user_id, is_public)
    \/ \E user_id \in Users, list_id \in ListIds, is_public \in {None, Some(TRUE), Some(FALSE)} :
           update_reading_list(user_id, list_id, is_public)
    \/ \E user_id \in Users, list_id \in ListIds : delete_reading_list(user_id, list_id)
    \/ \E user_id \in Users, list_id \in ListIds, book_id \in BookIds :
           add_book_to_list(user_id, list_id, book_id)
    \/ \E user_id \in Users, list_id \in ListIds, book_id \in BookIds :
           remove_book_from_list(user_id, list_id, book_id)
    \/ \E user_id \in Users, list_id \in ListIds : copy_reading_list(user_id, list_id)
    \/ \E user_id \in Users, list_id \in ListIds : get_reading_list(user_id, list_id)

SpecLists == Init /\ [][NextLists]_vars

\* --- claim C20 ---------------------------------------------------------------

\* the list a remove_book_from_list request addressed, before the request
AddressedBefore ==
    resp.before[FirstOf(OwnedBy(resp.before, resp.list_id, resp.user_id))]

RemovedAbsentBook ==
    /\ resp.op = "remove_book_from_list"
    /\ OwnedBy(resp.before, resp.list_id, resp.user_id) # {}
    /\ resp.book_id \notin SeqSet(AddressedBefore.books)

\* C20: after any sequence of create, add book, remove book, copy and update
\* requests every reading list's book_count equals the length of its books
\* array and is not negative; a remove_book_from_list request for a book_id
\* that is not in the list answers 404 and leaves the collection as it was.
C20_BookCountMatchesBooks ==
    /\ \A i \in 1..Len(reading_lists) :
           /\ reading_lists[i].book_count = Len(reading_lists[i].books)
           /\ reading_lists[i].book_count >= 0
    /\ RemovedAbsentBook => resp.status = 404 /\ reading_lists = resp.before

\* --- claim C22 ---------------------------------------------------------------

ChangingOps ==
    {"update_reading_list", "delete_reading_list", "add_book_to_list", "remove_book_from_list"}

\* the documents with the id the request named, as they were before it
Addressed == { i \in 1..Len(resp.before) : resp.before[i].id = resp.list_id }

NotTheOwner ==
    /\ Addressed # {}
    /\ \A i \in Addressed : resp.before[i].user_id # resp.user_id

\* C22: update, delete, add-book and remove-book issued by a user who is not
\* the owner of the list answer 404 and leave the collection as it was, and
\* get_reading_list returns a list whose is_public is false only to its
\* owner (anyone else is answered 404).
C22_OnlyOwnerChanges ==
    /\ (resp.op \in ChangingOps /\ NotTheOwner) =>
           resp.status = 404 /\ reading_lists = resp.before
    /\ (resp.op = "get_reading_list" /\ resp.status = 200) =>
           resp.returned[1].is_public \/ resp.returned[1].user_id = resp.user_id
    /\ (resp.op = "get_reading_list" /\ NotTheOwner
        /\ \A i \in Addressed : ~resp.before[i].is_public) => resp.status = 404

\* a user adds a book to another user's list that holds a book already
C22_Witness ==
    /\ resp.op = "add_book_to_list"
    /\ NotTheOwner
    /\ \E i \in Addressed : resp.before[i].books # << >>
    /\ resp.status = 404

\* ---------------------------------------------------------------------------
\* add_book_to_list with its two awaits apart: the handler reads the list
\* (find_one), is suspended, and later writes (update_one).  Other requests
\* run in between.
\* ---------------------------------------------------------------------------

MaxInflight == 2

RequestUnchanged ==
    UNCHANGED << now, etag_cache, data_cache, cache_timestamps, yc_cache, yc_timestamps,
                 lastWrite, ycLastWrite, last, fan, db_cache, db_videos, dbLastSet >>

Without(s, i) == SubSeq(s, 1, i - 1) \o SubSeq(s, i + 1, Len(s))

\* up to the first await after find_one: the ownership and duplicate checks
add_book_to_list_check(user_id, list_id, book_id) ==
    /\ calls < MaxListCalls
    /\ calls' = calls + 1
    /\ LET m == OwnedBy(reading_lists, list_id, user_id)
       IN  IF m = {}
           THEN /\ resp' = ListAnswer("add_book_to_list", user_id, list_id, book_id, 404)
                /\ UNCHANGED inflight
           ELSE IF book_id \in SeqSet(reading_lists[FirstOf(m)].books)
           THEN /\ resp' = ListAnswer("add_book_to_list", user_id, list_id, book_id, 400)
                /\ UNCHANGED inflight
           ELSE /\ Len(inflight) < MaxInflight
                /\ inflight' = Append(inflight,
                                      [op |-> "add_book_to_list", user_id |-> user_id,
                                       list_id |-> list_id, book_id |-> book_id])
                /\ UNCHANGED resp
    /\ UNCHANGED reading_lists
    /\ RequestUnchanged

\* the update_one({"id": list_id}, ...) of a suspended request and its answer
add_book_to_list_update(i) ==
    /\ i \in 1..Len(inflight)
    /\ inflight[i].op = "add_book_to_list"
    /\ LET r == inflight[i]
           m == WithId(reading_lists, r.list_id)
       IN  /\ reading_lists' =
                 IF m = {} THEN reading_lists
                 ELSE [reading_lists EXCEPT ![FirstOf(m)] = PushBook(@, r.book_id)]
           /\ resp' = ListAnswer("add_book_to_list", r.user_id, r.list_id, r.book_id, 200)
    /\ inflight' = Without(inflight, i)
    /\ UNCHANGED calls
    /\ RequestUnchanged

NextListsConcurrent ==
    \/ \E user_id \in Users, is_public \in BOOLEAN : create_reading_list(user_id, is_public)
    \/ \E user_id \in Users, list_id \in ListIds, book_id \in BookIds :
           add_book_to_list_check(user_id, list_id, book_id)
    \/ \E i \in 1..MaxInflight : add_book_to_list_update(i)
    \/ \E user_id \in Users, list_id \in ListIds : delete_reading_list(user_id, list_id)

SpecListsConcurrent == Init /\ [][NextListsConcurrent]_vars

\* --- claim C21 ---------------------------------------------------------------

NoDuplicateBook(doc) ==
    \A i, j \in 1..Len(doc.books) : doc.books[i] = doc.books[j] => i = j

\* C21: no reading list holds two entries with the same book_id, also when
\* add-book requests for the same list and book_id are processed
\* concurrently; an add-book request for a book_id that the list holds when
\* the request is answered is answered 400 and leaves the list unchanged.
C21_NoDuplicateBooks ==
    /\ \A i \in 1..Len(reading_lists) : NoDuplicateBook(reading_lists[i])
    /\ (resp.op = "add_book_to_list" /\ Addressed # {}
        /\ \E i \in Addressed : /\ resp.before[i].user_id = resp.user_id
                                /\ resp.book_id \in SeqSet(resp.before[i].books)) =>
           resp.status = 400 /\ reading_lists = resp.before

\* --- claim C23 ---------------------------------------------------------------

\* the age at which a get treats an entry as expired: not less than the TTL
TtlElapsed(stamp, t) == ~((t - stamp) < CACHE_TTL_MINUTES * 60)

CacheKeys == DOMAIN data_cache \cup DOMAIN cache_timestamps \cup DOMAIN etag_cache

\* C23: right after clear_expired_cache every key still present in the
\* in-memory cache is one that is_cache_valid reports as valid, and every
\* entry whose TTL had not elapsed keeps its payload, ETag and timestamp.
C23_SweepRemovesExpired ==
    last.op = "clear_expired_cache" =>
        LET before == last.preOverall[1]
        IN  /\ \A key \in CacheKeys :
                   /\ key \in DOMAIN cache_timestamps
                   /\ ~TtlElapsed(cache_timestamps[key], now)
            /\ \A key \in DOMAIN before.ts :
                   ~TtlElapsed(before.ts[key], now) =>
                       /\ Get(data_cache, key) = Get(before.data, key)
                       /\ Get(cache_timestamps, key) = Get(before.ts, key)
                       /\ Get(etag_cache, key) = Get(before.etag, key)

\* ---------------------------------------------------------------------------
\* search_content_library: the order of the paginated list
\* ---------------------------------------------------------------------------

\* the list after deduplication, before the sort (server.py 2375-2384)
Deduplicated ==
    LET gathered == Flatten([i \in 1..Len(fan.results) |-> fan.results[i].items])
        filtered == IF fan.req.category # "all"
                    THEN SelectSeq(gathered, PassesFilter)
                    ELSE gathered
    IN  UniqueResults(filtered, 1, {})

HasBoth(x) == x.description # "" /\ x.thumbnail # ""

\* the key of the sort (server.py 2388-2391)
SortKey(x) ==
    << x.description # "", x.thumbnail # "" /\ x.thumbnail # PageEmoji >>

PositionIn(s, x) == CHOOSE i \in 1..Len(s) : s[i] = x

\* C24: in the list search_content_library paginates, every item with a
\* non-empty description and a non-empty thumbnail precedes every item lacking
\* either one, and two items with the same sort key keep the relative order
\* they had after deduplication.
C24_MetadataFirstStable ==
    ContentReturned =>
        \A r \in {BuiltList} : \A i, j \in 1..Len(r) :
            /\ (HasBoth(r[j]) /\ ~HasBoth(r[i])) => j < i
            /\ (i < j /\ SortKey(r[i]) = SortKey(r[j]))
                   => PositionIn(Deduplicated, r[i]) < PositionIn(Deduplicated, r[j])

\* a list where an article with the page placeholder and a description is
\* followed by a described book without a cover, and an item with a cover but
\* no description comes last
C24_Witness ==
    /\ ContentReturned
    /\ \E r \in {BuiltList} : \E i, j, k \in 1..Len(r) :
            /\ i < j /\ j < k
            /\ r[i].thumbnail = PageEmoji /\ r[i].description # ""
            /\ r[j].thumbnail = "" /\ r[j].description # ""
            /\ r[k].thumbnail = "cover" /\ r[k].description = ""

\* ---------------------------------------------------------------------------
\* The three maps of the in-memory cache
\* ---------------------------------------------------------------------------

\* every operation on the in-memory cache: the cache methods called directly
\* and through search_videos and get_video_details
NextMemory == NextCache \/ Next

SpecMemory == Init /\ [][NextMemory]_vars

\* C25: after any sequence of in-memory cache operations the payload map and
\* the timestamp map have the same keys, and every key of the ETag map is a
\* key of the payload map.
C25_MapsAligned ==
    /\ DOMAIN data_cache = DOMAIN cache_timestamps
    /\ DOMAIN etag_cache \subseteq DOMAIN data_cache

\* a sweep has just removed an entry that had an ETag while another entry
\* stays
C25_Witness ==
    /\ last.op = "clear_expired_cache"
    /\ last.preOverall # None
    /\ \E k \in DOMAIN last.preOverall[1].etag : k \notin DOMAIN data_cache
    /\ data_cache # EmptyDict

\* ---------------------------------------------------------------------------
\* get_video_details: completeness of the entry under the overall key
\* ---------------------------------------------------------------------------

\* C26: whenever get_video_details writes an entry under the overall id-set
\* key and returns it, the entry holds an item for every id of every chunk of
\* the requested id list.
C26_OverallEntryComplete ==
    (IsDetails /\ last.outcome = "ok" /\ last.args[1] # << >>)
       => /\ Get(data_cache, VideosKey(last.args[1])) = last.result
          /\ \A k \in 1..Len(last.requests) :
                \A n \in 1..Len(last.requests[k]) :
                   \E i \in 1..Len(last.result[1].items) :
                      last.result[1].items[i][1] = last.requests[k][n]

\* ---------------------------------------------------------------------------
\* discover_videos: concurrent first-page requests
\* ---------------------------------------------------------------------------

ConcurrentRequests ==
    [query : { << "a" >> }, min_views : {1000, 3000}, page_token : {None},
     skip_cache : {FALSE}, max_results : {DiscoverMaxResults}, sort_by : {"viewCount"}]

AllOk == [i \in 1..4 |-> "ok"]

StoreUnchanged ==
    UNCHANGED << now, yc_cache, yc_timestamps, ycLastWrite, last, fan, dbLastSet,
                 reading_lists >>

\* discover_videos up to its first write to the database, the provider
\* answering every request: a durable hit, no results or a page without
\* videos is answered at once, otherwise the request goes on to the store step
\* with the videos it computed
discover_videos_compute(req) ==
    /\ calls < MaxDiscoverCalls
    /\ Len(inflight) < MaxInflight
    /\ calls' = calls + 1
    /\ \E cached_videos \in {DurableLookup(db_cache, req, now)} :
       \E found \in {IF PersistentHit(cached_videos) THEN NoSearch
                     ELSE Searches(clear_expired_cache(TheCache, now), req, AllOk, now)} :
       \E details \in {IF PersistentHit(cached_videos) \/ found.video_ids = << >>
                       THEN None
                       ELSE Some(get_video_details(found.c, found.video_ids, << "ok" >>, now))} :
       \E videos \in {IF details = None THEN << >>
                      ELSE RankedVideos(KeptVideos(details[1].result[1].items,
                                                   req.min_views),
                                        req.max_results)} :
           /\ Install(IF details = None THEN found.c ELSE details[1].c)
           /\ lastWrite' = Record(lastWrite, AllWrites(found.searches \o details), now)
           /\ IF videos # << >>
              THEN /\ inflight' = Append(inflight,
                                         [op |-> "discover_videos", req |-> req,
                                          pc |-> "delete_many", computed |-> videos,
                                          videos |-> videos])
                   /\ UNCHANGED resp
              ELSE /\ resp' = [op |-> "discover_videos", req |-> req, at |-> now,
                               computed |-> << >>,
                               videos |-> (discover_videos(cached_videos, found, details,
                                              db_cache, db_videos, req, now)).answer.videos,
                               stored |-> FALSE]
                   /\ UNCHANGED inflight
    /\ UNCHANGED << db_cache, db_videos >>
    /\ StoreUnchanged

\* await db.discovered_videos.delete_many({})
discover_videos_delete_many(i) ==
    /\ i \in 1..Len(inflight)
    /\ inflight[i].op = "discover_videos" /\ inflight[i].pc = "delete_many"
    /\ db_videos' = << >>
    /\ inflight' = [inflight EXCEPT ![i].pc = "insert_many"]
    /\ UNCHANGED << etag_cache, data_cache, cache_timestamps, lastWrite, calls, resp,
                    db_cache >>
    /\ StoreUnchanged

\* await db.discovered_videos.insert_many(videos)
discover_videos_insert_many(i) ==
    /\ i \in 1..Len(inflight)
    /\ inflight[i].op = "discover_videos" /\ inflight[i].pc = "insert_many"
    /\ db_videos' = db_videos \o inflight[i].videos
    /\ inflight' = [inflight EXCEPT ![i].pc = "find"]
    /\ UNCHANGED << etag_cache, data_cache, cache_timestamps, lastWrite, calls, resp,
                    db_cache >>
    /\ StoreUnchanged

\* videos = await db.discovered_videos.find({}).to_list(length=max_results)
discover_videos_find(i) ==
    /\ i \in 1..Len(inflight)
    /\ inflight[i].op = "discover_videos" /\ inflight[i].pc = "find"
    /\ inflight' = [inflight EXCEPT ![i].pc = "set_cached_search",
                                    ![i].videos = Take(db_videos, inflight[i].req.max_results)]
    /\ UNCHANGED << etag_cache, data_cache, cache_timestamps, lastWrite, calls, resp,
                    db_cache, db_videos >>
    /\ StoreUnchanged

\* await YouTubePersistentCache.set_cached_search(...) and the response
discover_videos_store(i) ==
    /\ i \in 1..Len(inflight)
    /\ inflight[i].op = "discover_videos" /\ inflight[i].pc = "set_cached_search"
    /\ LET r == inflight[i]
       IN  /\ db_cache' = set_cached_search(db_cache, SearchQuery(r.req.query),
                                            r.req.min_views, r.videos, now)
           /\ resp' = [op |-> "discover_videos", req |-> r.req, at |-> now,
                       computed |-> r.computed, videos |-> r.videos, stored |-> TRUE]
    /\ inflight' = Without(inflight, i)
    /\ UNCHANGED << etag_cache, data_cache, cache_timestamps, lastWrite, calls, db_videos >>
    /\ StoreUnchanged

NextDiscoverConcurrent ==
    \/ \E req \in ConcurrentRequests : discover_videos_compute(req)
    \/ \E i \in 1..MaxInflight : discover_videos_delete_many(i)
    \/ \E i \in 1..MaxInflight : discover_videos_insert_many(i)
    \/ \E i \in 1..MaxInflight : discover_videos_find(i)
    \/ \E i \in 1..MaxInflight : discover_videos_store(i)

SpecDiscoverConcurrent == Init /\ [][NextDiscoverConcurrent]_vars

\* the videos a first-page request computes when the provider answers
ComputedBy(req) ==
    RankedVideos(KeptVideos(
        VideosResponse(SearchResponse(SearchQuery(req.query), None, now).items, now).items,
        req.min_views), req.max_results)

\* C27: when first-page discover_videos requests run concurrently, the videos
\* a request returns and stores in the durable cache under its own key are the
\* videos that request computed, and the discovered_videos collection holds
\* the result set of a single request, never a mixture of two.
C27_ConcurrentDiscoverIsolated ==
    /\ (resp.op = "discover_videos" /\ resp.stored)
          => /\ resp.videos = resp.computed
             /\ \E i \in 1..Len(db_cache) :
                   /\ db_cache[i].cache_key = PersistentKey(SearchQuery(resp.req.query),
                                                            resp.req.min_views)
                   /\ db_cache[i].data = resp.computed
    /\ db_videos = << >> \/ \E req \in ConcurrentRequests : db_videos = ComputedBy(req)

\* ---------------------------------------------------------------------------
\* discover_videos: the min_views filter on every path
\* ---------------------------------------------------------------------------

FilterRequests ==
    [query : { << "a" >>, << "z" >> }, min_views : {1000, 3000},
     page_token : {None}, skip_cache : BOOLEAN,
     max_results : {DiscoverMaxResults}, sort_by : {"viewCount"}]

FilterAnswers ==
    { AllOk, [AllOk EXCEPT ![1] = "quotaExceeded"], [AllOk EXCEPT ![1] = "error"],
      [AllOk EXCEPT ![4] = "quotaExceeded"] }

NextDiscoverFilter ==
    \/ \E t \in DiscoverTimePoints : Advance(t)
    \/ \E req \in FilterRequests, ans \in FilterAnswers : DoDiscoverVideos(req, ans)
    \/ clear_discovered_videos

SpecDiscoverFilter == Init /\ [][NextDiscoverFilter]_vars

\* C28: every video of every successful discover_videos response has at
\* least the min_views of that request, whichever path produced the response.
C28_ReturnedVideosMeetMinViews ==
    (resp.op = "discover_videos" /\ resp.status = 200)
       => \A i \in 1..Len(resp.videos) : resp.videos[i].views >= resp.req.min_views

\* ---------------------------------------------------------------------------
\* discover_videos: the key of the durable cache and the request's parameters
\* ---------------------------------------------------------------------------

ParamRequests ==
    [query : { << "a" >> }, min_views : {1000}, page_token : {None},
     skip_cache : BOOLEAN, max_results : {1, 2}, sort_by : {"viewCount", "date"}]

NextDiscoverParams ==
    \/ \E t \in DiscoverTimePoints : Advance(t)
    \/ \E req \in ParamRequests : DoDiscoverVideos(req, AllOk)

SpecDiscoverParams == Init /\ [][NextDiscoverParams]_vars

\* C29: a discover_videos response served from the durable cache was stored
\* by a request with the same query, the same min_views and the same sort_by,
\* and with a max_results not smaller than the one of the request served.
C29_DurableEntryMatchesParams ==
    (resp.op = "discover_videos" /\ resp.kind = "persistent")
       => \E by \in {dbLastSet[PersistentKey(SearchQuery(resp.req.query),
                                             resp.req.min_views)].by} :
             /\ SearchQuery(by.query) = SearchQuery(resp.req.query)
             /\ by.min_views = resp.req.min_views
             /\ ValidSort(by.sort_by) = ValidSort(resp.req.sort_by)
             /\ by.max_results >= resp.req.max_results

\* ---------------------------------------------------------------------------
\* normalize_cc_license applied to its own output
\* ---------------------------------------------------------------------------

\* C30: license normalization is idempotent: normalizing a normalized license
\* for the same source returns it unchanged, and filter_cc_licensed_content
\* applied to its own output returns the same items with the same licenses.
C30_NormalizeIdempotent ==
    /\ (resp.op = "normalize_cc_license" /\ resp.out.outcome = "ok")
          => normalize_cc_license(PyStr(resp.out.value), resp.source) = resp.out
    /\ (resp.op = "filter_cc_licensed_content" /\ resp.out.outcome = "ok")
          => filter_cc_licensed_content(resp.out.value) = resp.out

=============================================================================
